---------------------------- MODULE Spec2Model ----------------------------
(***************************************************************************)
(* Model of the multi-session daemon of agent-browser-loop                 *)
(* (src/src/daemon.ts, startDaemon and handleRequest, lines 860-1281):     *)
(* the session registry, the per-session busy flag, the TTL sweep, the     *)
(* shutdown sequence and the newline-delimited socket protocol.            *)
(*                                                                         *)
(* The daemon is one single-threaded event loop.  A handler runs without   *)
(* interruption until it awaits the browser engine; the variable `running` *)
(* names the connection whose data handler is executing synchronously, and *)
(* every event (data chunk, engine completion, timer, signal) waits for    *)
(* running = NoConn.  An await of an already settled promise (ping, list,  *)
(* a synchronous throw) lets no I/O event in, so it does not suspend.      *)
(***************************************************************************)
EXTENDS Integers, Sequences, FiniteSets, TLC

\* ------------------------------------------------------------------ bounds

\* Number of request lines callers send in one run.
MaxReq == 3

\* Number of requests suspended at an await at the same time.
MaxInflight == 2

\* Number of clock ticks (Date.now() advances by one abstract unit per tick).
MaxTime == 2

\* Number of data chunks delivered in the framing specification.
MaxChunks == 3

\* Number of request lines callers send in the two-session specification.
MaxParReq == 4

\* Longest action list of a batch.
MaxActions == 3

\* Reference store: most elements on the first page and on any page, most
\* edits of the page in one run, most snapshots in one run, most snapshots
\* awaiting their store at the same time.
MaxInit == 2
MaxDom == 3
MaxEdits == 1
MaxSnapshots == 2
MaxPending == 1

\* Slicing: the longest list, the longest tree in characters, the largest
\* head, tail or limit asked for.
MaxItems == 4
MaxTree == 4
MaxCount == 3

\* waitFor: largest timeoutMs, largest intervalMs and longest page.evaluate,
\* in abstract clock units.
MaxTimeout == 3
MaxInterval == 2
MaxEval == 1

\* sessionTtl (options.sessionTtlMs), in abstract clock units.
sessionTtl == 1

\* ------------------------------------------------------------- vocabulary

Conns == {"c1", "c2"}
NoConn == "none"

\* Correlation tokens callers put in the id field.
Tokens == {"t1", "t2"}

\* "default" is the only explicit session id the create schema accepts;
\* GenIds is the pool idGenerator.next() draws from.
GenIds == {"swift-fox"}
Ids == {"default"} \cup GenIds

\* Marker of an optional field that is absent from the JSON object.
Absent == "absent"

\* ------------------------------------------------------------------ wire

\* A JSON object as the request schema sees it: the discriminant, the
\* correlation token, the optional session id and the command type.
Json(type, id, sessionId, cmd) ==
    [type |-> type, id |-> id, sessionId |-> sessionId, cmd |-> cmd]

\* The JSON literal null.
JsonNull == Json("null", Absent, Absent, Absent)

\* The result of JSON.parse on a text that is no JSON.
SyntaxError == Json("SyntaxError", Absent, Absent, Absent)

\* Characters of the byte stream.  The text of a JSON object v is the two
\* characters Open(v) Close(v); half of it is not JSON.
NL == [k |-> "nl", v |-> JsonNull]
SP == [k |-> "sp", v |-> JsonNull]
NullLit == [k |-> "null", v |-> JsonNull]
Open(v) == [k |-> "open", v |-> v]
Close(v) == [k |-> "close", v |-> v]

\* JSON.stringify(request) followed by a newline.
Stringify(v) == <<Open(v), Close(v)>>

\* String.prototype.trim on a line.
RECURSIVE TrimLeft(_)
TrimLeft(s) ==
    IF s # <<>> /\ Head(s) = SP THEN TrimLeft(Tail(s)) ELSE s

RECURSIVE TrimRight(_)
TrimRight(s) ==
    IF s # <<>> /\ s[Len(s)] = SP THEN TrimRight(SubSeq(s, 1, Len(s) - 1)) ELSE s

Trim(s) == TrimRight(TrimLeft(s))

\* JSON.parse(line): surrounding white space is ignored.
JsonParse(line) ==
    LET t == Trim(line) IN
    IF Len(t) = 2 /\ t[1].k = "open" /\ t[2].k = "close" /\ t[1].v = t[2].v
    THEN t[1].v
    ELSE IF t = <<NullLit>> THEN JsonNull ELSE SyntaxError

\* buffer.includes("\n")
HasNewline(buf) == \E i \in 1..Len(buf) : buf[i] = NL

\* buffer.indexOf("\n"), one-based
NewlineIdx(buf) == CHOOSE i \in 1..Len(buf) : buf[i] = NL /\ \A j \in 1..(i - 1) : buf[j] # NL

\* buffer.substring(0, newlineIdx)
FirstLine(buf) == SubSeq(buf, 1, NewlineIdx(buf) - 1)

\* Variant of RestAfterLine: the handler empties the buffer after a line.
RestDropsAll(buf) == <<>>

\* buffer.substring(newlineIdx + 1)
RestAfterLine(buf) == SubSeq(buf, NewlineIdx(buf) + 1, Len(buf))

\* The request types of requestSchema.
SessionOps == {"command", "act", "wait", "state"}
RequestTypes == {"ping", "shutdown", "create", "list", "close"} \cup SessionOps

\* Command types: close stops the browser, click stands for the engine calls.
CmdTypes == {"close", "click"}

\* requestSchema.safeParse(json).success
SchemaOk(j) ==
    /\ j.type \in RequestTypes
    /\ j.id \in Tokens
    /\ j.type \in {"ping", "shutdown", "list"} => TRUE
    /\ j.type = "create" => j.sessionId \in {Absent, "default"}
    /\ j.type = "close" => j.sessionId # Absent
    /\ j.type = "command" => j.cmd \in CmdTypes

\* The well-formed requests callers send.
Requests ==
    {Json(t, id, Absent, Absent) : t \in {"ping", "shutdown", "list"}, id \in Tokens}
    \cup {Json("create", id, s, Absent) : id \in Tokens, s \in {Absent, "default"}}
    \cup {Json("close", id, s, Absent) : id \in Tokens, s \in Ids}
    \cup {Json("command", id, s, c) : id \in Tokens, s \in {Absent} \cup GenIds, c \in CmdTypes}
    \cup {Json(t, id, s, Absent) : t \in {"act", "wait", "state"}, id \in Tokens, s \in {Absent} \cup GenIds}

\* Objects that parse as JSON and fail the schema: an unknown discriminant
\* with a token, a request without its token, and a close without the
\* session id its schema requires.
Malformed ==
    {Json("bogus", id, Absent, Absent) : id \in Tokens}
    \cup {Json("ping", Absent, Absent, Absent)}
    \cup {Json("close", "t1", Absent, Absent)}

\* The token the callers of a connection use for the requests that can stay
\* in flight; ping, list, shutdown and malformed lines carry any token.
TokenOf(c) == IF c = "c1" THEN "t1" ELSE "t2"

\* The lines callers send on connection c in the broker specification: one
\* complete line per data chunk, as DaemonClient.send writes them.  The last
\* three are half of a JSON text, the literal null and a blank line.
LineChunks(c) ==
    {Stringify(j) \o <<NL>> :
        j \in {q \in Requests : q.type \in {"ping", "list", "shutdown"} \/ q.id = TokenOf(c)}
              \cup Malformed}
    \cup {<<Open(Json("ping", "t1", Absent, Absent)), NL>>, <<NullLit, NL>>, <<SP, NL>>}


\* ----------------------------------------------------------------- state

VARIABLES
    now,          \* Date.now()
    alive,        \* the daemon process has not been killed
    listening,    \* server accepts new connections
    buffer,       \* per connection: let buffer
    running,      \* connection whose data handler runs synchronously
    sessions,     \* const sessions = new Map(): id -> entry
    objs,         \* every DaemonSession object ever constructed
    used,         \* idGenerator: const used = new Set()
    inflight,     \* requests suspended at an await, in the order of dispatch
    nChunks,      \* number of data events so far
    lastResp,     \* the response the last step wrote (NoResp: it wrote none)
    tracing,      \* the run keeps the received stream and the response counts
    written,      \* per connection: number of responses written (traced runs)
    received,     \* per connection: every character received (traced runs)
    sweep,        \* the cleanupTimer callback in progress
    timerActive,  \* cleanupTimer has not been cleared
    shuttingDown, \* let shuttingDown
    shut,         \* the shutdown() call in progress
    waiter,       \* one call of AgentBrowser.waitFor
    batch,        \* one call of executeActions
    dom,          \* the elements of the page, in document order
    refStore,     \* the session's ElementRefStore
    pending,      \* snapshots whose page.evaluate has returned, not yet stored
    res,          \* what the last step's resolveLocator returned (NoRes: none)
    stale,        \* a ref captured by a snapshot whose element was removed since
    slicing,      \* one call of sliceList or sliceTree
    ensure,       \* one call of ensureDaemon by a caller
    timer,        \* the cleanup timer and one idle session it watches
    http,         \* the HTTP server's sessions and the requests it handles
    net           \* one browser's network log and its capture listeners

vars == <<now, alive, listening, buffer, running, sessions, objs, used,
          inflight, nChunks, lastResp, tracing, written, received, sweep,
          timerActive, shuttingDown, shut, waiter, batch, dom, refStore,
          pending, res, stale, slicing, ensure, timer, http, net>>

\* The state of the library calls that the broker's actions leave alone.
refVars == <<dom, refStore, pending, res, stale>>

toolVars == <<slicing, ensure, timer, http, net>>

libVars == <<waiter, batch, refVars, toolVars>>

\* The state of the daemon, which the library calls leave alone.
daemonVars == <<now, alive, listening, buffer, running, sessions, objs, used,
                inflight, nChunks, lastResp, tracing, written, received, sweep,
                timerActive, shuttingDown, shut>>

brokerVars == <<sessions, objs, used, inflight, sweep, timerActive,
                shuttingDown, shut, alive, listening>>

\* A Map entry: the session object (0: no entry) and the entry's place in
\* the Map's insertion order.
NoEntry == [obj |-> 0, pos |-> 0]

\* sessions.has(id)
Has(sess, id) == sess[id].obj # 0

\* The entries a Map iterator still yields after the one at place `last`
\* (insertion order, live: entries added or deleted meanwhile count).
EntriesAfter(sess, last) == {id \in Ids : Has(sess, id) /\ sess[id].pos > last}

FirstOf(sess, S) == CHOOSE id \in S : \A other \in S : sess[id].pos <= sess[other].pos

\* sessions.set(id, session) with a new session object numbered o
MapSet(sess, id, o) ==
    [sess EXCEPT ![id] = [obj |-> o, pos |-> IF Has(sess, id) THEN sess[id].pos ELSE o]]

\* sessions.delete(id)
MapDelete(sess, id) == [sess EXCEPT ![id] = NoEntry]

\* idGenerator.release(id)
Release(u, id) == u \ {id}

NoResp ==
    [conn |-> NoConn, req |-> JsonNull, id |-> Absent, success |-> TRUE,
     error |-> "none", obj |-> 0]

SweepIdle == [pc |-> "idle", now |-> 0, id |-> Absent, last |-> 0, obj |-> 0]

ShutIdle == [pc |-> "idle", last |-> 0, obj |-> 0]

InitBroker ==
    /\ now = 0
    /\ alive = TRUE
    /\ listening = TRUE
    /\ buffer = [c \in Conns |-> <<>>]
    /\ running = NoConn
    /\ sessions = [id \in Ids |-> NoEntry]
    /\ objs = <<>>
    /\ used = {}
    /\ inflight = <<>>
    /\ nChunks = 0
    /\ lastResp = NoResp
    /\ written = [c \in Conns |-> 0]
    /\ received = [c \in Conns |-> <<>>]
    /\ sweep = SweepIdle
    /\ timerActive = TRUE
    /\ shuttingDown = FALSE
    /\ shut = ShutIdle

\* No library call is being followed.
NoWaiter == [pc |-> "none"]

NoBatch == [pc |-> "none"]

\* A Map without keys.
EmptyMap == [key \in {} |-> 0]

\* new ElementRefStore(): two empty maps, snapshotVersion = 0.  found is the
\* raw elements of the snapshot that filled the store last, at the number of
\* edits the page had seen when that snapshot read it.
EmptyStore ==
    [refMap |-> EmptyMap, indexMap |-> EmptyMap, version |-> 0,
     found |-> <<>>, at |-> 0]

NoRes == [kind |-> "none"]

NoStale == [phase |-> "none", edits |-> 0]

RefsIdle ==
    /\ dom = <<>>
    /\ refStore = EmptyStore
    /\ pending = <<>>
    /\ res = NoRes
    /\ stale = NoStale

NoSlice == [pc |-> "none"]

NoEnsure == [pc |-> "none"]

NoTimer == [pc |-> "none"]

NoHttp == [pc |-> "none"]

NoNet == [pc |-> "none"]

ToolsIdle ==
    /\ slicing = NoSlice /\ ensure = NoEnsure
    /\ timer = NoTimer /\ http = NoHttp /\ net = NoNet

LibIdle == waiter = NoWaiter /\ batch = NoBatch /\ RefsIdle /\ ToolsIdle

Init == InitBroker /\ tracing = FALSE /\ LibIdle

\* socket.write(JSON.stringify(response) + "\n") on connection c, answering
\* the line that parsed as req.
Write(c, req, id, success, error, obj) ==
    /\ lastResp' = [conn |-> c, req |-> req, id |-> id, success |-> success,
                    error |-> error, obj |-> obj]
    /\ written' = [written EXCEPT ![c] = IF tracing THEN @ + 1 ELSE @]

\* The step writes no response.
NoWrite == lastResp' = NoResp /\ UNCHANGED written

\* return { id, success, ... } of handleRequest for the suspended request r:
\* const { id } = request.
ResponseId(r) == r.req.id

\* The response to the suspended request r when its operation has finished.
WriteFor(r, success, error) ==
    Write(r.conn, r.req, ResponseId(r), success, error, r.obj)

\* The sequence q without its i-th element.
Without(q, i) == SubSeq(q, 1, i - 1) \o SubSeq(q, i + 1, Len(q))

\* ------------------------------------------------------ socket data handler

\* socket.on("data"): buffer += data.toString(), then the while loop starts.
Data(c, chunk, maxChunks) ==
    /\ alive /\ running = NoConn
    /\ nChunks < maxChunks
    /\ Len(inflight) < MaxInflight
    /\ nChunks' = nChunks + 1
    /\ buffer' = [buffer EXCEPT ![c] = @ \o chunk]
    /\ received' = [received EXCEPT ![c] = IF tracing THEN @ \o chunk ELSE @]
    /\ running' = c
    /\ NoWrite
    /\ UNCHANGED <<now, tracing, libVars>>
    /\ UNCHANGED brokerVars

\* while (buffer.includes("\n")) is false: the handler returns.
LoopExit(c) ==
    /\ alive /\ running = c
    /\ ~HasNewline(buffer[c])
    /\ running' = NoConn
    /\ NoWrite
    /\ UNCHANGED <<now, buffer, nChunks, received, tracing, libVars>>
    /\ UNCHANGED brokerVars

\* if (!line.trim()) continue
LoopBlank(c) ==
    /\ alive /\ running = c
    /\ HasNewline(buffer[c])
    /\ Trim(FirstLine(buffer[c])) = <<>>
    /\ buffer' = [buffer EXCEPT ![c] = RestAfterLine(@)]
    /\ NoWrite
    /\ UNCHANGED <<now, running, nChunks, received, tracing, libVars>>
    /\ UNCHANGED brokerVars

\* The loop has a line to handle.
HasLine(c) ==
    /\ alive /\ running = c
    /\ HasNewline(buffer[c])
    /\ Trim(FirstLine(buffer[c])) # <<>>

\* const line = buffer.substring(0, newlineIdx); buffer = buffer.substring(newlineIdx + 1)
TakeLine(c) ==
    /\ buffer' = [buffer EXCEPT ![c] = RestAfterLine(@)]
    /\ UNCHANGED <<now, nChunks, received, tracing, libVars>>

\* Variant of InvalidId: a schema failure is always answered as "unknown".
InvalidIdUnknown(j) ==
    IF j = SyntaxError \/ j = JsonNull THEN "error" ELSE "unknown"

\* The id of the response to a line that does not reach handleRequest:
\* json.id ?? "unknown" for a schema failure, "error" when JSON.parse or the
\* read of json.id throws.
InvalidId(j) ==
    IF j = SyntaxError \/ j = JsonNull THEN "error"
    ELSE IF j.id = Absent THEN "unknown" ELSE j.id

InvalidError(j) ==
    IF j = SyntaxError \/ j = JsonNull THEN "exception" ELSE "Invalid request"

\* JSON.parse(line) of the line at the head of the buffer.
HeadRequest(c) == JsonParse(FirstLine(buffer[c]))

\* A line that JSON.parse rejects or that fails requestSchema.safeParse.
LoopInvalid(c) ==
    LET j == HeadRequest(c)
    IN  /\ HasLine(c)
        /\ j = SyntaxError \/ ~SchemaOk(j)
        /\ TakeLine(c)
        /\ Write(c, j, InvalidId(j), FALSE, InvalidError(j), 0)
        /\ UNCHANGED running
        /\ UNCHANGED brokerVars

Dispatchable(c, types) ==
    /\ HasLine(c)
    /\ HeadRequest(c) # SyntaxError
    /\ SchemaOk(HeadRequest(c))
    /\ HeadRequest(c).type \in types

\* ------------------------------------------------------------ the registry

\* A DaemonSession as createSession builds it; page says whether the
\* session's browser holds a page (started and not yet stopped).
NewSession(id) == [id |-> id, busy |-> FALSE, lastUsed |-> now, page |-> TRUE]

\* The session object o is the one registered under its id.
Live(o) == o \in 1..Len(objs) /\ sessions[objs[o].id].obj = o

\* Variant of Acquire: one flag for the whole registry.
AcquireAll(os, o) ==
    [k \in 1..Len(os) |-> [os[k] EXCEPT !.busy = TRUE, !.lastUsed = now]]

\* session.busy = true; session.lastUsed = Date.now()
Acquire(os, o) == [os EXCEPT ![o].busy = TRUE, ![o].lastUsed = now]

\* Variant of ReleaseOp: the finally block forgets the flag.
ReleaseKeepsBusy(os, o) == [os EXCEPT ![o].lastUsed = now]

\* Variant of ReleaseOp: the finally block leaves lastUsed alone.
ReleaseKeepsLastUsed(os, o) == [os EXCEPT ![o].busy = FALSE]

\* finally of act, wait and state: session.busy = false; session.lastUsed = Date.now()
ReleaseOp(os, o) == [os EXCEPT ![o].busy = FALSE, ![o].lastUsed = now]

\* finally of command: the flag is cleared only if (sessions.has(session.id))
ReleaseCmd(os, sess, o) == IF Has(sess, os[o].id) THEN ReleaseOp(os, o) ELSE os

\* The finally block of the request type.
Finally(type, os, sess, o) ==
    IF type = "command" THEN ReleaseCmd(os, sess, o) ELSE ReleaseOp(os, o)

\* browser.stop() has completed: the browser holds no page any more.
Stopped(os, o) == [os EXCEPT ![o].page = FALSE]

\* A request suspended at an await: its connection, the request, the await,
\* the session id it names, its session object, and the session object
\* closeSession is stopping.
Suspended(c, req, pc, sid, obj, target) ==
    [conn |-> c, req |-> req, pc |-> pc, sid |-> sid, obj |-> obj, target |-> target]

\* getOrDefaultSession that falls back on the generated id.
OrDefaultGenerated(sessionId) ==
    IF sessionId = Absent THEN "swift-fox" ELSE sessionId

\* getOrDefaultSession: const id = sessionId ?? "default"
OrDefault(sessionId) == IF sessionId = Absent THEN "default" ELSE sessionId

\* ------------------------------------------------------------- shutdown()

\* for (const session of sessions.values()) await session.browser.stop(),
\* resumed after the entry at place `last`: the loop suspends at the next
\* browser that holds a page; when none is left, sessions.clear() and the
\* process kills itself.
ShutRun(sess, os, last) ==
    LET S == {id \in EntriesAfter(sess, last) : os[sess[id].obj].page} IN
    IF S = {}
    THEN [sessions |-> [id \in Ids |-> NoEntry], alive |-> FALSE,
          shut |-> [pc |-> "done", last |-> 0, obj |-> 0]]
    ELSE [sessions |-> sess, alive |-> TRUE,
          shut |-> [pc |-> "await", last |-> sess[FirstOf(sess, S)].pos,
                    obj |-> sess[FirstOf(sess, S)].obj]]

\* const shutdown = async () => { ... }
Shutdown ==
    IF shuttingDown
    THEN UNCHANGED <<shuttingDown, timerActive, listening, sessions, alive, shut>>
    ELSE LET run == ShutRun(sessions, objs, 0) IN
         /\ shuttingDown' = TRUE
         /\ timerActive' = FALSE
         /\ listening' = FALSE
         /\ sessions' = run.sessions
         /\ alive' = run.alive
         /\ shut' = run.shut

\* A stop awaited by shutdown() settles; try { } catch {} ignores a throw.
ShutdownResume(ok) ==
    /\ alive /\ running = NoConn
    /\ shut.pc = "await"
    /\ LET os == IF ok THEN Stopped(objs, shut.obj) ELSE objs
           run == ShutRun(sessions, os, shut.last)
       IN  /\ objs' = os
           /\ sessions' = run.sessions
           /\ alive' = run.alive
           /\ shut' = run.shut
    /\ NoWrite
    /\ UNCHANGED <<now, buffer, nChunks, received, tracing, running, libVars>>
    /\ UNCHANGED <<used, inflight, sweep, timerActive, shuttingDown, listening>>

\* process.on("SIGINT" | "SIGTERM" | "SIGHUP", () => shutdown())
Signal ==
    /\ alive /\ running = NoConn
    /\ ~shuttingDown
    /\ Shutdown
    /\ NoWrite
    /\ UNCHANGED <<now, buffer, nChunks, received, tracing, running, libVars>>
    /\ UNCHANGED <<objs, used, inflight, sweep>>

\* ---------------------------------------------------------- cleanupTimer

\* if (now - session.lastUsed > sessionTtl && !session.busy)
Expired(s, t) == t - s.lastUsed > sessionTtl /\ ~s.busy

\* The body of the timer callback from the entry after place `last` on:
\* entries that fail the test are passed; the loop suspends at the stop of
\* the first browser that holds a page; a browser without a page is stopped
\* at once and its entry deleted.
RECURSIVE SweepRun(_, _, _, _, _)
SweepRun(sess, os, u, t, last) ==
    LET S == {id \in EntriesAfter(sess, last) : Expired(os[sess[id].obj], t)}
    IN  IF S = {}
        THEN [sessions |-> sess, used |-> u, sweep |-> SweepIdle]
        ELSE LET id == FirstOf(sess, S) IN
             IF os[sess[id].obj].page
             THEN [sessions |-> sess, used |-> u,
                   sweep |-> [pc |-> "await", now |-> t, id |-> id,
                              last |-> sess[id].pos, obj |-> sess[id].obj]]
             ELSE SweepRun(MapDelete(sess, id), os, Release(u, id), t, sess[id].pos)

\* setInterval(async () => { if (sessionTtl <= 0) return; const now = Date.now(); ...
\* One callback at a time: the interval is at least 10 s.
SweepTick ==
    /\ alive /\ running = NoConn
    /\ timerActive
    /\ sweep.pc = "idle"
    /\ sessionTtl > 0
    /\ LET run == SweepRun(sessions, objs, used, now, 0) IN
       /\ sessions' = run.sessions
       /\ used' = run.used
       /\ sweep' = run.sweep
    /\ NoWrite
    /\ UNCHANGED <<now, buffer, nChunks, received, tracing, running, libVars>>
    /\ UNCHANGED <<objs, inflight, timerActive, shuttingDown, shut, alive, listening>>

\* What the callback does with the entry once the awaited stop has settled:
\* sessions.delete(id)
SweepDelete(sess, id) == MapDelete(sess, id)

\* The stop awaited by the callback settles (a throw is ignored):
\* sessions.delete(id); idGenerator.release(id); then the loop goes on.
SweepResume(ok) ==
    /\ alive /\ running = NoConn
    /\ sweep.pc = "await"
    /\ LET os == IF ok THEN Stopped(objs, sweep.obj) ELSE objs
           run == SweepRun(SweepDelete(sessions, sweep.id), os,
                           Release(used, sweep.id), sweep.now, sweep.last)
       IN  /\ objs' = os
           /\ sessions' = run.sessions
           /\ used' = run.used
           /\ sweep' = run.sweep
    /\ NoWrite
    /\ UNCHANGED <<now, buffer, nChunks, received, tracing, running, libVars>>
    /\ UNCHANGED <<inflight, timerActive, shuttingDown, shut, alive, listening>>

\* Date.now() advances.  Only differences of clock readings are used, so
\* time is let pass only while a session is registered.
Tick ==
    /\ alive /\ running = NoConn
    /\ now < MaxTime
    /\ \E id \in Ids : Has(sessions, id)
    /\ now' = now + 1
    /\ NoWrite
    /\ UNCHANGED <<buffer, nChunks, received, tracing, running, libVars>>
    /\ UNCHANGED brokerVars

\* ---------------------------------------------------------- handleRequest

\* case "ping", case "list": answered without touching any session.
HandlePing(c) ==
    LET j == HeadRequest(c)
    IN  /\ Dispatchable(c, {"ping", "list"})
        /\ TakeLine(c)
        /\ Write(c, j, j.id, TRUE, "none", 0)
        /\ UNCHANGED running
        /\ UNCHANGED brokerVars

\* case "shutdown": the response is written, shutdown() is called and the
\* data handler returns, leaving the rest of the buffer.
HandleShutdown(c) ==
    LET j == HeadRequest(c)
    IN  /\ Dispatchable(c, {"shutdown"})
        /\ TakeLine(c)
        /\ Write(c, j, j.id, TRUE, "none", 0)
        /\ running' = NoConn
        /\ Shutdown
        /\ UNCHANGED <<objs, used, inflight, sweep>>

\* Variant of CreateCheck: createSession without the sessions.has test.
CreateCheckNever(sess, id) == FALSE

\* idGenerator.next(): an id of the pool with !used.has(id); the caller
\* adds it to used.  Which one is drawn is Math.random()'s choice.
IdNext(u) == GenIds \ u

\* createSession up to await browser.start():
\* if (sessions.has(id)) throw new Error("Session already exists")
CreateCheck(sess, id) == Has(sess, id)

\* case "create": const id = sessionId ?? idGenerator.next()
HandleCreate(c) ==
    LET j == HeadRequest(c)
    IN  /\ Dispatchable(c, {"create"})
        /\ TakeLine(c)
        /\ \E id \in Ids :
              /\ IF j.sessionId = Absent
                 THEN id \in IdNext(used) /\ used' = used \cup {id}
                 ELSE id = j.sessionId /\ used' = used
              /\ IF CreateCheck(sessions, id)
                 THEN /\ Write(c, j, j.id, FALSE, "Session already exists", 0)
                      /\ UNCHANGED <<running, inflight>>
                 ELSE /\ inflight' = Append(inflight, Suspended(c, j, "start", id, 0, 0))
                      /\ running' = NoConn
                      /\ NoWrite
        /\ UNCHANGED <<sessions, objs, sweep, timerActive, shuttingDown, shut,
                       alive, listening>>

\* createSession after await browser.start(): sessions.set(id, session)
CreateSet(sess, id, o) == MapSet(sess, id, o)

\* Variant of StartReturn: the session is registered before start() is
\* awaited, so a failed start leaves its entry behind.
StartRegistersFirst(i, ok) ==
    LET r == inflight[i] IN
    /\ alive /\ running = NoConn
    /\ i <= Len(inflight)
    /\ r.pc = "start"
    /\ inflight' = Without(inflight, i)
    /\ running' = r.conn
    /\ objs' = Append(objs, NewSession(r.sid))
    /\ sessions' = CreateSet(sessions, r.sid, Len(objs) + 1)
    /\ WriteFor([r EXCEPT !.obj = Len(objs) + 1], ok, IF ok THEN "none" ELSE "engine")
    /\ UNCHANGED <<now, buffer, nChunks, received, tracing, libVars>>
    /\ UNCHANGED <<used, sweep, timerActive, shuttingDown, shut, alive, listening>>

\* browser.start() settles for the create request at place i.
StartReturn(i, ok) ==
    LET r == inflight[i] IN
    /\ alive /\ running = NoConn
    /\ i <= Len(inflight)
    /\ r.pc = "start"
    /\ inflight' = Without(inflight, i)
    /\ running' = r.conn
    /\ IF ok
       THEN /\ objs' = Append(objs, NewSession(r.sid))
            /\ sessions' = CreateSet(sessions, r.sid, Len(objs) + 1)
            /\ WriteFor([r EXCEPT !.obj = Len(objs) + 1], TRUE, "none")
       ELSE /\ WriteFor(r, FALSE, "engine")
            /\ UNCHANGED <<objs, sessions>>
    /\ UNCHANGED <<now, buffer, nChunks, received, tracing, libVars>>
    /\ UNCHANGED <<used, sweep, timerActive, shuttingDown, shut, alive, listening>>

\* closeSession after await session.browser.stop():
\* sessions.delete(sessionId); idGenerator.release(sessionId)
CloseDelete(sess, sid) == MapDelete(sess, sid)

\* case "close": closeSession(request.sessionId).  The stop of a browser
\* that holds no page settles at once.
HandleClose(c) ==
    LET j == HeadRequest(c)
        sid == j.sessionId
        t == sessions[sid].obj
    IN  /\ Dispatchable(c, {"close"})
        /\ TakeLine(c)
        /\ IF ~Has(sessions, sid)
           THEN /\ Write(c, j, j.id, FALSE, "Session not found", 0)
                /\ UNCHANGED <<running, inflight, sessions, used>>
           ELSE IF objs[t].page
           THEN /\ inflight' = Append(inflight, Suspended(c, j, "stop", sid, t, t))
                /\ running' = NoConn
                /\ NoWrite
                /\ UNCHANGED <<sessions, used>>
           ELSE /\ sessions' = CloseDelete(sessions, sid)
                /\ used' = Release(used, sid)
                /\ Write(c, j, j.id, TRUE, "none", t)
                /\ UNCHANGED <<running, inflight>>
        /\ UNCHANGED <<objs, sweep, timerActive, shuttingDown, shut, alive, listening>>

\* The stop awaited by closeSession settles, for a close request and for a
\* close command (whose finally block follows).
StopReturn(i, ok) ==
    LET r == inflight[i]
        sess == IF ok THEN CloseDelete(sessions, r.sid) ELSE sessions
        os == IF ok THEN Stopped(objs, r.target) ELSE objs
    IN  /\ alive /\ running = NoConn
        /\ i <= Len(inflight)
        /\ r.pc = "stop"
        /\ inflight' = Without(inflight, i)
        /\ running' = r.conn
        /\ sessions' = sess
        /\ used' = IF ok THEN Release(used, r.sid) ELSE used
        /\ objs' = IF r.req.type = "command" THEN ReleaseCmd(os, sess, r.obj) ELSE os
        /\ WriteFor(r, ok, IF ok THEN "none" ELSE "engine")
        /\ UNCHANGED <<now, buffer, nChunks, received, tracing, libVars>>
        /\ UNCHANGED <<sweep, timerActive, shuttingDown, shut, alive, listening>>

\* The await a session operation suspends at first: executeCommand,
\* executeActions and executeWait ("exec"), or getState ("snap").
FirstAwait(type) == IF type = "state" THEN "snap" ELSE "exec"

\* case "command", "act", "wait", "state" up to the first await:
\* getOrDefaultSession, session.busy = true, session.lastUsed = Date.now().
\* An engine call on a browser that holds no page throws at once; the stop
\* of such a browser settles at once.
HandleSessionOp(c) ==
    LET j == HeadRequest(c)
        id == OrDefault(j.sessionId)
        o == sessions[id].obj
    IN  /\ Dispatchable(c, SessionOps)
        /\ TakeLine(c)
        /\ IF ~Has(sessions, id)
           THEN /\ Write(c, j, j.id, FALSE, "Session not found", 0)
                /\ UNCHANGED <<running, inflight, sessions, used, objs>>
           ELSE IF objs[o].page
           THEN /\ objs' = Acquire(objs, o)
                /\ inflight' = Append(inflight,
                                      Suspended(c, j, FirstAwait(j.type), id, o, 0))
                /\ running' = NoConn
                /\ NoWrite
                /\ UNCHANGED <<sessions, used>>
           ELSE IF j.type = "command" /\ j.cmd = "close"
           THEN /\ sessions' = CloseDelete(sessions, id)
                /\ used' = Release(used, id)
                /\ objs' = ReleaseCmd(Acquire(objs, o), CloseDelete(sessions, id), o)
                /\ Write(c, j, j.id, TRUE, "none", o)
                /\ UNCHANGED <<running, inflight>>
           ELSE /\ objs' = Finally(j.type, Acquire(objs, o), sessions, o)
                /\ Write(c, j, j.id, FALSE, "engine", o)
                /\ UNCHANGED <<running, inflight, sessions, used>>
        /\ UNCHANGED <<sweep, timerActive, shuttingDown, shut, alive, listening>>

\* The trailing getState of act and wait for the request at place i: it
\* throws at once on a browser without a page, else the request suspends
\* again.
Snapshot(i) ==
    LET r == inflight[i] IN
    IF objs[r.obj].page
    THEN /\ inflight' = [inflight EXCEPT ![i].pc = "snap"]
         /\ running' = NoConn
         /\ NoWrite
         /\ UNCHANGED objs
    ELSE /\ inflight' = Without(inflight, i)
         /\ running' = r.conn
         /\ objs' = Finally(r.req.type, objs, sessions, r.obj)
         /\ WriteFor(r, FALSE, "engine")

\* executeCommand(session.browser, { type: "close" }) has stopped the
\* browser of the request at place i; closeSession(session.id) follows.
CloseCommand(i) ==
    LET r == inflight[i]
        os == Stopped(objs, r.obj)
        t == sessions[r.sid].obj
    IN  IF ~Has(sessions, r.sid)
        THEN /\ inflight' = Without(inflight, i)
             /\ running' = r.conn
             /\ objs' = ReleaseCmd(os, sessions, r.obj)
             /\ WriteFor(r, FALSE, "Session not found")
             /\ UNCHANGED <<sessions, used>>
        ELSE IF os[t].page
        THEN /\ inflight' = [inflight EXCEPT ![i].pc = "stop", ![i].target = t]
             /\ running' = NoConn
             /\ objs' = os
             /\ NoWrite
             /\ UNCHANGED <<sessions, used>>
        ELSE /\ inflight' = Without(inflight, i)
             /\ running' = r.conn
             /\ sessions' = CloseDelete(sessions, r.sid)
             /\ used' = Release(used, r.sid)
             /\ objs' = ReleaseCmd(os, CloseDelete(sessions, r.sid), r.obj)
             /\ WriteFor(r, TRUE, "none")

\* executeCommand, executeActions or executeWait settles.  executeActions
\* catches what its actions throw, so act goes on to its snapshot.
ExecReturn(i, ok) ==
    LET r == inflight[i] IN
    /\ alive /\ running = NoConn
    /\ i <= Len(inflight)
    /\ r.pc = "exec"
    /\ IF r.req.type = "command" /\ r.req.cmd = "close" /\ ok
       THEN CloseCommand(i)
       ELSE IF r.req.type = "act" \/ (r.req.type = "wait" /\ ok)
       THEN Snapshot(i) /\ UNCHANGED <<sessions, used>>
       ELSE /\ inflight' = Without(inflight, i)
            /\ running' = r.conn
            /\ objs' = Finally(r.req.type, objs, sessions, r.obj)
            /\ WriteFor(r, ok, IF ok THEN "none" ELSE "engine")
            /\ UNCHANGED <<sessions, used>>
    /\ UNCHANGED <<now, buffer, nChunks, received, tracing, libVars>>
    /\ UNCHANGED <<sweep, timerActive, shuttingDown, shut, alive, listening>>

\* session.browser.getState settles, then the finally block runs.
SnapReturn(i, ok) ==
    LET r == inflight[i] IN
    /\ alive /\ running = NoConn
    /\ i <= Len(inflight)
    /\ r.pc = "snap"
    /\ inflight' = Without(inflight, i)
    /\ running' = r.conn
    /\ objs' = Finally(r.req.type, objs, sessions, r.obj)
    /\ WriteFor(r, ok, IF ok THEN "none" ELSE "engine")
    /\ UNCHANGED <<now, buffer, nChunks, received, tracing, libVars>>
    /\ UNCHANGED <<sessions, used, sweep, timerActive, shuttingDown, shut, alive,
                   listening>>

\* ---------------------------------------------------------- specifications

\* The handler of connection c goes on until it suspends or returns.
Loop(c) ==
    \/ LoopExit(c)
    \/ LoopBlank(c)
    \/ LoopInvalid(c)
    \/ HandlePing(c)
    \/ HandleShutdown(c)
    \/ HandleCreate(c)
    \/ HandleClose(c)
    \/ HandleSessionOp(c)

\* An awaited engine call settles, by returning or by throwing.
Settle ==
    \E ok \in BOOLEAN :
        \/ \E i \in 1..MaxInflight :
              \/ StartReturn(i, ok)
              \/ StopReturn(i, ok)
              \/ ExecReturn(i, ok)
              \/ SnapReturn(i, ok)
        \/ SweepResume(ok)
        \/ ShutdownResume(ok)

\* A caller may send create without an id only while the id pool has an
\* unused id.
Sendable(chunk) ==
    \A i \in 1..Len(chunk) :
        (chunk[i].k = "open" /\ chunk[i].v.type = "create" /\ chunk[i].v.sessionId = Absent)
            => GenIds \ used # {}

Next ==
    \/ \E c \in Conns : \E chunk \in LineChunks(c) :
          Sendable(chunk) /\ Data(c, chunk, MaxReq)
    \/ \E c \in Conns : Loop(c)
    \/ Settle
    \/ SweepTick
    \/ Signal
    \/ Tick

Spec == Init /\ [][Next]_vars


\* The framing specification: the byte stream of a connection arrives in
\* arbitrary pieces.  Line(v) is the text of one request line.
Line(v) == Stringify(v) \o <<NL>>

Ping == Json("ping", "t1", Absent, Absent)
CreateDefault == Json("create", "t1", "default", Absent)

\* The pieces a data event may carry: whole lines, halves of a line, lone
\* newlines and spaces, and pieces that hold several lines and a fragment.
FrameChunks ==
    {Line(CreateDefault),
     Line(Json("wait", "t2", Absent, Absent)),
     Line(Json("close", "t2", "default", Absent)),
     Line(Json("shutdown", "t2", Absent, Absent)),
     <<Open(Ping)>>, <<Close(Ping)>>, <<Close(Ping), NL>>, <<NL>>, <<SP>>,
     Line(CreateDefault) \o Line(Ping) \o <<Open(Ping)>>,
     Line(Ping) \o <<SP, NL>> \o Line(Ping) \o <<SP>>}

InitCodec == InitBroker /\ tracing = TRUE /\ LibIdle

NextCodec ==
    \/ \E c \in Conns : \E chunk \in FrameChunks : Data(c, chunk, MaxChunks)
    \/ \E c \in Conns : Loop(c)
    \/ Settle
    \/ SweepTick
    \/ Signal
    \/ Tick

SpecCodec == InitCodec /\ [][NextCodec]_vars

\* The broker specification with the progress the event loop guarantees: a
\* handler that can run does run, an awaited engine call of a request or of
\* the sweep settles.  No progress is assumed for the browser stops that
\* shutdown() awaits: a browser that does not close stalls them.
EngineSettles ==
    \E ok \in BOOLEAN :
        \/ \E i \in 1..MaxInflight :
              \/ StartReturn(i, ok)
              \/ StopReturn(i, ok)
              \/ ExecReturn(i, ok)
              \/ SnapReturn(i, ok)
        \/ SweepResume(ok)

Fairness ==
    /\ WF_vars(\E c \in Conns : Loop(c))
    /\ WF_vars(EngineSettles)

SpecFair == Spec /\ Fairness

\* The two-session specification: callers of connection c1 work on session
\* "default", callers of connection c2 on the generated session, so that
\* operations on two sessions overlap within MaxParReq request lines.
SessionOf(c) == IF c = "c1" THEN Absent ELSE "swift-fox"

ParChunks(c) ==
    {Line(Json("create", TokenOf(c), IF c = "c1" THEN "default" ELSE Absent, Absent)),
     Line(Json("state", TokenOf(c), SessionOf(c), Absent)),
     Line(Json("wait", TokenOf(c), SessionOf(c), Absent)),
     Line(Json("close", TokenOf(c), "default", Absent)),
     Line(Json("shutdown", TokenOf(c), Absent, Absent)),
     Line(Json("ping", TokenOf(c), Absent, Absent)),
     Line(Json("bogus", TokenOf(c), Absent, Absent)),
     <<SP, NL>>}

NextPar ==
    \/ \E c \in Conns : \E chunk \in ParChunks(c) :
          Sendable(chunk) /\ Data(c, chunk, MaxParReq)
    \/ \E c \in Conns : Loop(c)
    \/ Settle
    \/ SweepTick
    \/ Signal
    \/ Tick

SpecPar == Init /\ [][NextPar]_vars

\* ------------------------------------------------- AgentBrowser.waitFor

\* What a step of waitFor leaves alone.
waitOthers == <<daemonVars, batch, refVars, toolVars>>

\* A call waitFor({ ..., timeoutMs, intervalMs, signal }) about to start.
\* signal is "none" (no AbortSignal), "live" or "aborted" (signal.aborted).
WaitCall(timeout, interval, signal) ==
    [pc |-> "call", timeout |-> timeout, interval |-> interval, signal |-> signal,
     aborted |-> FALSE, registered |-> FALSE, start |-> 0, clock |-> 0,
     slept |-> 0, lastEval |-> 0, polls |-> 0, abortAt |-> -1, abortPc |-> "none",
     outcome |-> "none"]

\* The call has ended: the finally block removes the listener.
WaitEnd(w, outcome) ==
    [w EXCEPT !.pc = "done", !.outcome = outcome, !.registered = FALSE]

\* if (Date.now() - start > timeout)
TimedOutLate(elapsed, timeout) == elapsed > timeout + MaxInterval

TimedOut(elapsed, timeout) == elapsed > timeout

\* const start = Date.now(); if (signal) { if (signal.aborted) throw new
\* Error("Request aborted"); signal.addEventListener("abort", onAbort) }
WaitEnter ==
    /\ waiter.pc = "call"
    /\ waiter' = IF waiter.signal = "aborted"
                 THEN [waiter EXCEPT !.pc = "done", !.outcome = "aborted"]
                 ELSE [waiter EXCEPT !.pc = "top", !.start = waiter.clock,
                                     !.registered = (waiter.signal = "live")]
    /\ UNCHANGED waitOthers

\* Variant of WaitTop: the timeout is tested before the abort flag.
WaitTopTimeoutFirst ==
    /\ waiter.pc = "top"
    /\ waiter' = IF TimedOut(waiter.clock - waiter.start, waiter.timeout)
                 THEN WaitEnd(waiter, "timeout")
                 ELSE IF waiter.aborted
                 THEN WaitEnd(waiter, "aborted")
                 ELSE [waiter EXCEPT !.pc = "eval"]
    /\ UNCHANGED waitOthers

\* Top of the while loop: if (aborted) throw "Request aborted"; if the
\* timeout has passed throw "Wait timed out"; else page.evaluate is awaited.
WaitTop ==
    /\ waiter.pc = "top"
    /\ waiter' = IF waiter.aborted
                 THEN WaitEnd(waiter, "aborted")
                 ELSE IF TimedOut(waiter.clock - waiter.start, waiter.timeout)
                 THEN WaitEnd(waiter, "timeout")
                 ELSE [waiter EXCEPT !.pc = "eval"]
    /\ UNCHANGED waitOthers

\* page.evaluate settles after d clock units with true ("matched"), false
\* ("unmatched") or by throwing ("throw").
WaitEvalReturn(d, r) ==
    /\ waiter.pc = "eval"
    /\ LET w == [waiter EXCEPT !.clock = @ + d, !.lastEval = d, !.polls = @ + 1]
       IN  waiter' = IF r = "matched" THEN WaitEnd(w, "matched")
                     ELSE IF r = "throw" THEN WaitEnd(w, "error")
                     ELSE [w EXCEPT !.pc = "sleep"]
    /\ UNCHANGED waitOthers

\* await page.waitForTimeout(interval) settles.
WaitSleepReturn ==
    /\ waiter.pc = "sleep"
    /\ waiter' = [waiter EXCEPT !.pc = "top", !.clock = @ + waiter.interval,
                                !.slept = @ + waiter.interval]
    /\ UNCHANGED waitOthers

\* The signal's abort event fires while the loop is suspended at an await:
\* onAbort sets the flag if the listener is registered.
WaitAbort ==
    /\ waiter.pc \in {"eval", "sleep"}
    /\ waiter.signal = "live"
    /\ waiter' = [waiter EXCEPT !.signal = "aborted", !.aborted = waiter.registered,
                                !.abortAt = waiter.clock, !.abortPc = waiter.pc]
    /\ UNCHANGED waitOthers

InitWait ==
    /\ InitBroker /\ tracing = FALSE
    /\ batch = NoBatch /\ RefsIdle /\ ToolsIdle
    /\ waiter \in {WaitCall(t, i, sig) : t \in 0..MaxTimeout, i \in 1..MaxInterval,
                                       sig \in {"none", "live", "aborted"}}

NextWait ==
    \/ WaitEnter
    \/ WaitTop
    \/ \E d \in 0..MaxEval : \E r \in {"matched", "unmatched", "throw"} :
          WaitEvalReturn(d, r)
    \/ WaitSleepReturn
    \/ WaitAbort

SpecWait == InitWait /\ [][NextWait]_vars

\* ------------------------------------------------------- executeActions

\* What a step of executeActions leaves alone.
batchOthers == <<daemonVars, waiter, refVars, toolVars>>

\* The actions of a batch: a command and whether executeCommand throws on it.
StepActions == [type : {"click", "press"}, throws : BOOLEAN]

\* The action lists of at most n actions.
RECURSIVE ActionLists(_)
ActionLists(n) ==
    IF n = 0 THEN {<<>>}
    ELSE ActionLists(n - 1)
         \cup {Append(l, a) : l \in {m \in ActionLists(n - 1) : Len(m) = n - 1},
                              a \in StepActions}

\* Variant of HaltOnError: a batch goes on after a failure by default.
HaltOnErrorOff(opt) == IF opt = Absent THEN FALSE ELSE opt = "true"

\* haltOnError: request.haltOnError ?? true; const { haltOnError = true } = options
HaltOnError(opt) == IF opt = Absent THEN TRUE ELSE opt = "true"

\* A call executeActions(browser, actions, { haltOnError }) about to start:
\* const results = [].  called lists the actions handed to executeCommand.
BatchCall(actions, opt) ==
    [pc |-> "loop", actions |-> actions, haltOnError |-> HaltOnError(opt),
     given |-> opt, i |-> 1, results |-> <<>>, called |-> <<>>]

\* results.push({ action, result }) or results.push({ action, error })
ActionResult(action) ==
    [action |-> action, error |-> IF action.throws THEN "message" ELSE "none"]

\* One turn of for (const action of actions): executeCommand is awaited, its
\* result or its error is pushed, and a failure ends the loop if haltOnError.
BatchStep ==
    /\ batch.pc = "loop"
    /\ batch.i <= Len(batch.actions)
    /\ LET action == batch.actions[batch.i] IN
       batch' = [batch EXCEPT
                    !.called = Append(@, action),
                    !.results = Append(@, ActionResult(action)),
                    !.i = @ + 1,
                    !.pc = IF action.throws /\ batch.haltOnError
                           THEN "done" ELSE "loop"]
    /\ UNCHANGED batchOthers

\* The for loop has passed the last action: return results.
BatchReturn ==
    /\ batch.pc = "loop"
    /\ batch.i > Len(batch.actions)
    /\ batch' = [batch EXCEPT !.pc = "done"]
    /\ UNCHANGED batchOthers

InitBatch ==
    /\ InitBroker /\ tracing = FALSE
    /\ waiter = NoWaiter /\ RefsIdle /\ ToolsIdle
    /\ batch \in {BatchCall(l, opt) : l \in ActionLists(MaxActions),
                                     opt \in {Absent, "true", "false"}}

NextBatch == BatchStep \/ BatchReturn

SpecBatch == InitBatch /\ [][NextBatch]_vars

\* ------------------------------------------------------------------ claims

\* The requests in flight that are operations on a session.
IsSessionOp(r) == r.req.type \in SessionOps

\* The step finishes the request at place i and writes its response.
Answers(i) ==
    /\ i \in 1..Len(inflight)
    /\ lastResp' # NoResp
    /\ lastResp'.conn = inflight[i].conn
    /\ lastResp'.req = inflight[i].req
    /\ inflight' = Without(inflight, i)

\* C1: at most one operation executes against a session at any instant:
\* no two requests in flight are operations on the same session object.
C1_MutualExclusion ==
    \A i, k \in 1..Len(inflight) :
        (i # k /\ IsSessionOp(inflight[i]) /\ IsSessionOp(inflight[k]))
            => inflight[i].obj # inflight[k].obj

\* C2: a command, act, wait or state request that targets a session whose
\* busy flag is held is answered with a SessionBusy error and nothing is
\* executed against the session (no request goes in flight).
C2_BusyRejected ==
    [][\A c \in Conns :
          (/\ Dispatchable(c, SessionOps)
           /\ Has(sessions, OrDefault(HeadRequest(c).sessionId))
           /\ objs[sessions[OrDefault(HeadRequest(c).sessionId)].obj].busy)
          => (/\ lastResp' # NoResp
              /\ ~lastResp'.success
              /\ lastResp'.error = "Session is busy"
              /\ inflight' = inflight)]_vars

\* C3: the busy flag an operation acquired is released when the operation
\* finishes, whatever its outcome: a registered session whose flag is set has
\* an operation in flight.
C3_BusyReleased ==
    \A o \in 1..Len(objs) :
        (Live(o) /\ objs[o].busy)
            => \E i \in 1..Len(inflight) : IsSessionOp(inflight[i]) /\ inflight[i].obj = o

\* C3 witness: an operation on a session has thrown, its error response is
\* written, and the session is registered with its flag cleared.
C3_ReleasedAfterThrow ==
    /\ lastResp # NoResp
    /\ lastResp.req.type \in SessionOps
    /\ ~lastResp.success
    /\ lastResp.error = "engine"
    /\ Live(lastResp.obj)
    /\ ~objs[lastResp.obj].busy
    /\ \A i \in 1..Len(inflight) : inflight[i].obj # lastResp.obj

\* A step of the timer callback: it starts, or the stop it awaits settles.
SweepStep == SweepTick \/ \E ok \in BOOLEAN : SweepResume(ok)

\* C4: the sweep never deletes from the registry a session that has an
\* operation in flight at that moment, also when the operation started
\* while the sweep was awaiting the stop of that session's browser.
C4_SweepSparesBusy ==
    [][\A id \in Ids :
          (/\ SweepStep
           /\ Has(sessions, id)
           /\ sessions'[id] # sessions[id])
          => \A i \in 1..Len(inflight) :
                ~(IsSessionOp(inflight[i]) /\ inflight[i].obj = sessions[id].obj)]_vars

\* The clock reading the running timer callback compares with.
SweepNow == IF sweep.pc = "await" THEN sweep.now ELSE now

\* C5: a sweep tick removes exactly the sessions that are not busy and idle
\* past the TTL: when the tick ends no such session is left registered, and
\* a session that is busy or not idle past the TTL is left unchanged.
C5_SweepExactlyExpired ==
    [][SweepStep =>
          /\ sweep'.pc = "idle" =>
                \A id \in Ids :
                    Has(sessions', id) => ~Expired(objs'[sessions'[id].obj], SweepNow)
          /\ \A id \in Ids :
                (Has(sessions, id) /\ ~Expired(objs[sessions[id].obj], SweepNow))
                    => sessions'[id] = sessions[id]]_vars

\* C6: create with an id that is registered fails with "Session already
\* exists" and leaves the registry and every session untouched; create with
\* an id that is not registered is admitted; after a successful close the id
\* is not registered, and a successful create registers its new session.
C6_DuplicateCreate ==
    [][/\ \A c \in Conns :
             (Dispatchable(c, {"create"}) /\ HeadRequest(c).sessionId # Absent)
             => IF Has(sessions, HeadRequest(c).sessionId)
                THEN /\ lastResp' # NoResp
                     /\ lastResp'.conn = c
                     /\ ~lastResp'.success
                     /\ lastResp'.error = "Session already exists"
                     /\ sessions' = sessions
                     /\ objs' = objs
                     /\ inflight' = inflight
                ELSE /\ lastResp' = NoResp
                     /\ inflight' = Append(inflight,
                            Suspended(c, HeadRequest(c), "start",
                                      HeadRequest(c).sessionId, 0, 0))
       /\ (lastResp' # NoResp /\ lastResp'.req.type = "close" /\ lastResp'.success)
             => ~Has(sessions', lastResp'.req.sessionId)
       /\ (lastResp' # NoResp /\ lastResp'.req.type = "create" /\ lastResp'.success)
             => /\ lastResp'.obj = Len(objs')
                /\ sessions'[objs'[lastResp'.obj].id].obj = lastResp'.obj]_vars

\* C6 witness: session "default" was created, stopped and removed, and a
\* second create of "default" has just succeeded.
C6_Recreated ==
    /\ lastResp # NoResp
    /\ lastResp.req.type = "create"
    /\ lastResp.req.sessionId = "default"
    /\ lastResp.success
    /\ Live(lastResp.obj)
    /\ \E o \in 1..(lastResp.obj - 1) : objs[o].id = "default" /\ ~objs[o].page

\* C7: every response carries the token of the request it answers, also the
\* error response to a line that parses as JSON, fails the schema and has a
\* token.
C7_TokenEchoed ==
    (lastResp # NoResp /\ lastResp.req.id \in Tokens) => lastResp.id = lastResp.req.id

\* C7 witness: the error response to a malformed line that has a token.
C7_MalformedAnswered ==
    /\ lastResp # NoResp
    /\ lastResp.req.type = "bogus"
    /\ ~lastResp.success
    /\ lastResp.id \in Tokens

\* C8: a step that answers a request with an error writes that one response,
\* takes the request out of flight, leaves the broker serving, leaves the
\* membership of the registry unchanged and leaves every session other than
\* the request's own unchanged.
C8_FailureContained ==
    [][(lastResp' # NoResp /\ ~lastResp'.success)
          => /\ alive' /\ listening' = listening
             /\ running' = lastResp'.conn
             /\ inflight' = inflight \/ \E i \in 1..Len(inflight) : Answers(i)
             /\ \A id \in Ids : Has(sessions', id) <=> Has(sessions, id)
             /\ Len(objs') = Len(objs)
             /\ \A o \in 1..Len(objs) : o # lastResp'.obj => objs'[o] = objs[o]]_vars

\* C8 witness: an engine call of a request has thrown and is answered while
\* another session is registered and the handler goes on.
C8_FailedBesideOther ==
    /\ lastResp # NoResp
    /\ ~lastResp.success
    /\ lastResp.error = "engine"
    /\ running = lastResp.conn
    /\ \E o \in 1..Len(objs) : o # lastResp.obj /\ Live(o)

\* The part of the received stream the handler has taken out of the buffer.
Taken(c) == SubSeq(received[c], 1, Len(received[c]) - Len(buffer[c]))

\* The number of lines in a sequence of complete lines that are not blank.
RECURSIVE NonBlankLines(_)
NonBlankLines(s) ==
    IF ~HasNewline(s) THEN 0
    ELSE (IF Trim(FirstLine(s)) = <<>> THEN 0 ELSE 1) + NonBlankLines(RestAfterLine(s))

\* The requests of connection c that are suspended.
InFlightOn(c) == {i \in 1..Len(inflight) : inflight[i].conn = c}

\* C9: whatever the pieces the stream arrives in, the buffer is what is left
\* of the stream after whole lines were taken from its front; each non-blank
\* line taken is in flight or has one response, blank lines have none; and
\* once the handlers of a connection have returned (no shutdown handled) the
\* buffer holds only a fragment without newline.
C9_Framing ==
    \A c \in Conns :
        /\ Len(buffer[c]) <= Len(received[c])
        /\ received[c] = Taken(c) \o buffer[c]
        /\ Taken(c) = <<>> \/ Taken(c)[Len(Taken(c))] = NL
        /\ written[c] + Cardinality(InFlightOn(c)) = NonBlankLines(Taken(c))
        /\ (alive /\ ~shuttingDown /\ running = NoConn /\ InFlightOn(c) = {})
              => ~HasNewline(buffer[c])

\* C9 witness: a line whose halves came in two data events, then one piece
\* with a line, a blank line, a line and a fragment: three responses are
\* written and the fragment waits in the buffer.
C9_FragmentKept ==
    \E c \in Conns :
        /\ running = NoConn
        /\ nChunks = 3
        /\ Taken(c) = Line(Ping) \o Line(Ping) \o <<SP, NL>> \o Line(Ping)
        /\ buffer[c] = <<SP>>
        /\ written[c] = 3

\* C10: the responses to operations on one session are written in the order
\* in which the operations acquired the busy flag: an operation is answered
\* only when no operation that acquired the flag of the same session before
\* it is still in flight.
C10_ResponseOrder ==
    [][\A i \in 1..Len(inflight) :
          (IsSessionOp(inflight[i]) /\ Answers(i))
          => \A k \in 1..(i - 1) :
                (IsSessionOp(inflight[k]) /\ inflight[k].obj = inflight[i].obj)
                    => inflight[k] = inflight[i]]_vars

C12_ShutdownTerminates ==
    /\ [](shuttingDown => (~timerActive /\ ~listening))
    /\ shuttingDown ~> ~alive

\* C13: a wait whose condition never becomes true and that is not aborted
\* ends with the timeout error no earlier than timeoutMs after its start and,
\* counting the time slept between polls, no more than one interval after
\* timeoutMs: in wall-clock time no more than one interval plus the duration
\* of its last poll after timeoutMs.  While it runs it has slept no longer.
C13_TimeoutWindow ==
    /\ waiter.pc # "none" => waiter.slept <= waiter.timeout + waiter.interval
    /\ (waiter.pc = "done" /\ waiter.outcome = "timeout")
          => /\ waiter.clock - waiter.start >= waiter.timeout
             /\ waiter.clock - waiter.start
                   <= waiter.timeout + waiter.interval + waiter.lastEval
             /\ ~waiter.aborted

\* C13 witness: a wait with a positive timeout has timed out after sleeping
\* exactly one interval longer than the timeout.
C13_TimedOutAtBound ==
    /\ waiter.pc = "done"
    /\ waiter.outcome = "timeout"
    /\ waiter.timeout > 0
    /\ waiter.polls >= 2
    /\ waiter.slept = waiter.timeout + waiter.interval

\* The abort event has fired during the wait.
AbortFired == waiter.pc # "none" /\ waiter.abortAt >= 0

\* A signal that is aborted when waitFor is called fails the wait before any
\* poll; an abort that fires during the wait ends the loop within one
\* interval (plus the poll in flight) and is never reported as a timeout.
AbortBasics ==
    /\ (waiter.pc = "done" /\ waiter.signal = "aborted" /\ ~AbortFired)
          => (waiter.outcome = "aborted" /\ waiter.polls = 0)
    /\ AbortFired
          => /\ waiter.clock - waiter.abortAt <= waiter.interval + waiter.lastEval
             /\ waiter.slept <= waiter.timeout + waiter.interval
             /\ waiter.outcome # "timeout"

FirstFailure(actions) ==
    IF \E k \in 1..Len(actions) : actions[k].throws
    THEN CHOOSE k \in 1..Len(actions) :
            actions[k].throws /\ \A m \in 1..(k - 1) : ~actions[m].throws
    ELSE 0

\* C15: the results of a batch are, in order, the results of the actions that
\* were handed to executeCommand, which are a prefix of the action list in
\* order; with halt-on-error (given or by default) the prefix ends with the
\* first action that fails; without it the prefix is the whole list; every
\* result records its action's outcome.
C15_BatchResults ==
    /\ batch.pc # "none" =>
          /\ Len(batch.results) = Len(batch.called)
          /\ batch.called = SubSeq(batch.actions, 1, Len(batch.called))
          /\ \A k \in 1..Len(batch.results) :
                /\ batch.results[k].action = batch.actions[k]
                /\ (batch.results[k].error # "none") <=> batch.actions[k].throws
    /\ batch.pc = "done" =>
          Len(batch.results) =
             IF batch.given # "false" /\ FirstFailure(batch.actions) # 0
             THEN FirstFailure(batch.actions)
             ELSE Len(batch.actions)

\* C15 witness: by default a batch of three actions whose second action fails
\* has returned two results.
C15_HaltedAtSecond ==
    /\ batch.pc = "done"
    /\ batch.given = Absent
    /\ Len(batch.actions) = 3
    /\ FirstFailure(batch.actions) = 2
    /\ Len(batch.results) = 2
    /\ batch.results[1].error = "none"


-----------------------------------------------------------------------------
\* The element reference system: a snapshot (extractInteractiveElements)
\* fills the session's ElementRefStore, resolveLocator turns a stored ref or
\* index back into an element of the page as it is now.
\*
\* The page is the list of the children of <body> in document order, all
\* visible.  An element has a tag and the attributes role, type and
\* data-testid (Absent: the attribute is not there); no element has an id, a
\* name, a placeholder or an aria-label.

Element(tag, role, type, testid) ==
    [tag |-> tag, role |-> role, type |-> type, testid |-> testid]

Kinds ==
    { Element("button", Absent, Absent, Absent),
      Element("button", "button", Absent, Absent),
      Element("button", Absent, "submit", Absent),
      Element("button", "button", "submit", Absent),
      Element("button", "button_0", Absent, Absent),
      Element("button", Absent, Absent, "t"),
      Element("div", "button", Absent, Absent),
      Element("div", "button", Absent, "t"),
      Element("div", Absent, Absent, Absent) }

RECURSIVE Pages(_)
Pages(n) ==
    IF n = 0 THEN {<<>>}
    ELSE LET shorter == Pages(n - 1)
         IN  shorter \cup {Append(d, k) : d \in {x \in shorter : Len(x) = n - 1},
                                          k \in Kinds}

\* The place of the element at p among the siblings of its tag, from 1, and
\* the number of siblings of its tag.
SameTagIndex(d, p) == Cardinality({q \in 1..p : d[q].tag = d[p].tag})

SameTagCount(d, p) == Cardinality({q \in 1..Len(d) : d[q].tag = d[p].tag})

\* generateXPath: /html[1]/body[1]/tag[k]; the last step is what tells the
\* children of <body> apart.
generateXPath(d, p) == [tag |-> d[p].tag, idx |-> SameTagIndex(d, p)]

\* generateCssPath: html > body > tag, with :nth-of-type(k) only when the
\* element has siblings of its tag (nth = 0: no :nth-of-type).
generateCssPath(d, p) ==
    [tag |-> d[p].tag,
     nth |-> IF SameTagCount(d, p) > 1 THEN SameTagIndex(d, p) ELSE 0]

NoSelector == [form |-> "none"]

\* generateFingerprint: [data-testid="..."] alone when the element has one;
\* else the tag followed by the attributes it has; null without attributes.
generateFingerprint(el) ==
    IF el.testid # Absent
    THEN [form |-> "attrs", testid |-> el.testid]
    ELSE IF el.type = Absent /\ el.role = Absent
         THEN NoSelector
         ELSE [form |-> "tag", tag |-> el.tag, type |-> el.type,
               role |-> el.role]

\* The role a snapshot reports: the role attribute, else the role implied by
\* the tag.
RoleOf(el) ==
    IF el.role # Absent THEN el.role
    ELSE IF el.tag = "button" THEN "button" ELSE el.tag

\* fingerprintData of a raw element.
fingerprintData(el) ==
    [tagName |-> el.tag, role |-> RoleOf(el), type |-> el.type,
     name |-> Absent, placeholder |-> Absent]

\* normalizeBase of the values the page can hold, as the characters of the
\* result with every run of letters as one token.
Chars(value) ==
    IF value = "button_0" THEN <<"button", "_", "0">> ELSE <<value>>

\* getElementBase: the role attribute if there is one, else by tag.
getElementBase(el) ==
    IF el.role # Absent THEN Chars(el.role) ELSE Chars(el.tag)

\* INTERACTIVE_SELECTORS, of which the page can match button and
\* [role="button"].
IsInteractive(el) == el.tag = "button" \/ el.role = "button"

\* extractInteractiveElementsRaw: one record per interactive element, in
\* document order.  pos is the element itself (its place on the page).
RawElement(d, p) ==
    [xpath |-> generateXPath(d, p),
     cssPath |-> generateCssPath(d, p),
     fingerprint |-> generateFingerprint(d[p]),
     refBase |-> getElementBase(d[p]),
     fingerprintData |-> fingerprintData(d[p]),
     pos |-> p]

RECURSIVE RawFrom(_, _)
RawFrom(d, p) ==
    IF p > Len(d) THEN <<>>
    ELSE (IF IsInteractive(d[p]) THEN <<RawElement(d, p)>> ELSE <<>>)
            \o RawFrom(d, p + 1)

extractInteractiveElementsRaw(d) == RawFrom(d, 1)

\* The decimal digits of a counter.
DigitChars == <<"0", "1", "2", "3", "4", "5", "6", "7", "8", "9">>

RECURSIVE Digits(_)
Digits(n) ==
    IF n < 10 THEN <<DigitChars[n + 1]>>
    ELSE Digits(n \div 10) \o <<DigitChars[(n % 10) + 1]>>

\* `${base}_${counter}`, the counter being the number of earlier raw elements
\* of the same base.
RefOfOneCounter(raws, k) == raws[k].refBase \o <<"_">> \o Digits(k - 1)

RefOf(raws, k) ==
    raws[k].refBase \o <<"_">>
       \o Digits(Cardinality({m \in 1..(k - 1) :
                                 raws[m].refBase = raws[k].refBase}))

\* refStore.clear(): both maps emptied, the version counted up.
clearKeepsRefs(store) == [store EXCEPT !.version = @ + 1]

clearKeepsVersion(store) ==
    [store EXCEPT !.refMap = EmptyMap, !.indexMap = EmptyMap]

clear(store) ==
    [store EXCEPT !.refMap = EmptyMap, !.indexMap = EmptyMap,
                  !.version = @ + 1]

\* refMap.set(key, value), indexMap.set(key, value).
PutKey(map, key, value) ==
    [x \in DOMAIN map \cup {key} |-> IF x = key THEN value ELSE map[x]]

\* refStore.set(ref, index, selectors, fingerprint): one StoredElementRef
\* under its ref and under its index.  pos is the element the entry was made
\* for.
setCountingOn(store, ref, index, selectors, fingerprint, pos) ==
    LET stored == [ref |-> ref, index |-> index + store.version - 1,
                   selectors |-> selectors, fingerprint |-> fingerprint,
                   pos |-> pos]
    IN  [store EXCEPT !.refMap = PutKey(@, ref, stored),
                      !.indexMap = PutKey(@, index + store.version - 1,
                                          stored)]

set(store, ref, index, selectors, fingerprint, pos) ==
    LET stored == [ref |-> ref, index |-> index, selectors |-> selectors,
                   fingerprint |-> fingerprint, pos |-> pos]
    IN  [store EXCEPT !.refMap = PutKey(@, ref, stored),
                      !.indexMap = PutKey(@, index, stored)]

\* rawElements.map(...): one set per raw element, from the first (index 0).
RECURSIVE SetFrom(_, _, _)
SetFrom(store, raws, k) ==
    IF k > Len(raws) THEN store
    ELSE SetFrom(set(store, RefOf(raws, k), k - 1,
                     [xpath |-> raws[k].xpath, cssPath |-> raws[k].cssPath,
                      fingerprint |-> raws[k].fingerprint],
                     raws[k].fingerprintData, raws[k].pos),
                 raws, k + 1)

\* extractInteractiveElements from refStore.clear() to its return.
Rebuilt(store, raws, at) ==
    [SetFrom(clear(store), raws, 1) EXCEPT !.found = raws, !.at = at]

Least(S) == CHOOSE q \in S : \A r \in S : q <= r

\* The elements of the page d each locator matches.
XPathMatches(d, xpath) ==
    {q \in 1..Len(d) : d[q].tag = xpath.tag /\ SameTagIndex(d, q) = xpath.idx}

CssMatches(d, css) ==
    {q \in 1..Len(d) :
        /\ d[q].tag = css.tag
        /\ css.nth = 0 \/ SameTagIndex(d, q) = css.nth}

\* The fingerprint selector; one that starts with "[" is prefixed with the
\* stored tag name.
FingerprintMatches(d, stored) ==
    LET f == stored.selectors.fingerprint
    IN  IF f.form = "none" THEN {}
        ELSE IF f.form = "attrs"
        THEN {q \in 1..Len(d) :
                 /\ stored.fingerprint.tagName # Absent
                       => d[q].tag = stored.fingerprint.tagName
                 /\ d[q].testid = f.testid}
        ELSE {q \in 1..Len(d) :
                 /\ d[q].tag = f.tag
                 /\ f.type # Absent => d[q].type = f.type
                 /\ f.role # Absent => d[q].role = f.role}

\* The check pickMatching runs on a candidate: every stored property that is
\* set must equal the candidate's tag or attribute.
FingerprintOk(el, fingerprint) ==
    /\ fingerprint.tagName # Absent => el.tag = fingerprint.tagName
    /\ fingerprint.role # Absent => el.role = fingerprint.role
    /\ fingerprint.type # Absent => el.type = fingerprint.type
    /\ fingerprint.name # Absent => FALSE
    /\ fingerprint.placeholder # Absent => FALSE

\* pickMatching: the first candidate, in document order, that passes the
\* check; 0 (null) if none does.
pickLastMatching(d, candidates, fingerprint) ==
    LET passing == {q \in candidates : FingerprintOk(d[q], fingerprint)}
    IN  IF passing = {} THEN 0
        ELSE CHOOSE q \in passing : \A r \in passing : r <= q

pickMatching(d, candidates, fingerprint) ==
    LET passing == {q \in candidates : FingerprintOk(d[q], fingerprint)}
    IN  IF passing = {} THEN 0 ELSE Least(passing)

Found(q, via, passed) ==
    [kind |-> "element", pos |-> q, via |-> via, passed |-> passed]

Failed(error) == [kind |-> "error", error |-> error]

\* The last resort of resolveLocator: the first match of the best selector
\* that matches anything, else the error.
lastResortThrows(xpathLocator, cssLocator, fingerprintLocator) ==
    Failed("Unable to resolve element")

lastResort(xpathLocator, cssLocator, fingerprintLocator) ==
    IF xpathLocator # {}
    THEN Found(Least(xpathLocator), "xpath", FALSE)
    ELSE IF cssLocator # {}
    THEN Found(Least(cssLocator), "css", FALSE)
    ELSE IF fingerprintLocator # {}
    THEN Found(Least(fingerprintLocator), "fingerprint", FALSE)
    ELSE Failed("Unable to resolve element")

\* resolveLocator from "const selectors = stored.selectors" on.
resolveStored(d, stored) ==
    LET xpathLocator == XPathMatches(d, stored.selectors.xpath)
        cssLocator == CssMatches(d, stored.selectors.cssPath)
        fingerprintLocator == FingerprintMatches(d, stored)
        xpathMatch == pickMatching(d, xpathLocator, stored.fingerprint)
        cssMatch == pickMatching(d, cssLocator, stored.fingerprint)
        fingerprintMatch ==
            pickMatching(d, fingerprintLocator, stored.fingerprint)
    IN  IF xpathMatch # 0 THEN Found(xpathMatch, "xpath", TRUE)
        ELSE IF cssMatch # 0 THEN Found(cssMatch, "css", TRUE)
        ELSE IF fingerprintMatch # 0
        THEN Found(fingerprintMatch, "fingerprint", TRUE)
        ELSE lastResort(xpathLocator, cssLocator, fingerprintLocator)

\* An option that is not given.  "if (options.ref)" takes the empty string
\* for no ref; NoIndex stands for undefined, the indexes given are from 0.
NoRef == <<>>

NoIndex == 0 - 1

\* resolveLocator(page, {ref, index}).
resolveLocatorLenient(store, d, ref, index) ==
    IF ref # NoRef /\ ref \in DOMAIN store.refMap
    THEN resolveStored(d, store.refMap[ref])
    ELSE IF index # NoIndex /\ index \in DOMAIN store.indexMap
    THEN resolveStored(d, store.indexMap[index])
    ELSE Failed("Must provide either ref or index")

resolveLocator(store, d, ref, index) ==
    IF ref # NoRef
    THEN IF ref \notin DOMAIN store.refMap THEN Failed("Unknown ref")
         ELSE resolveStored(d, store.refMap[ref])
    ELSE IF index # NoIndex
    THEN IF index \notin DOMAIN store.indexMap THEN Failed("Unknown index")
         ELSE resolveStored(d, store.indexMap[index])
    ELSE Failed("Must provide either ref or index")

refOthers == <<daemonVars, waiter, batch, toolVars>>

\* The page after the function that extractInteractiveElementsRaw evaluates
\* in it has run: the function reads tags, attributes, styles and rectangles
\* and writes nothing.
pageAfterEvaluateMarked(d) ==
    [p \in 1..Len(d) |->
        IF IsInteractive(d[p]) THEN [d[p] EXCEPT !.testid = "t"] ELSE d[p]]

pageAfterEvaluate(d) == d

\* extractInteractiveElements up to its await: page.evaluate reads the page
\* in one piece.
GetStateEval ==
    /\ Len(pending) < MaxPending
    /\ refStore.version + Len(pending) < MaxSnapshots
    /\ pending' = Append(pending,
                         [raws |-> extractInteractiveElementsRaw(dom),
                          at |-> stale.edits])
    /\ dom' = pageAfterEvaluate(dom)
    /\ res' = NoRes
    /\ UNCHANGED <<refStore, stale, refOthers>>

\* extractInteractiveElements after its await: clear the store and set one
\* entry per raw element, with nothing awaited in between.  A snapshot that
\* read the page after the removal makes the removed element's ref stale.
GetStateStore ==
    /\ pending # <<>>
    /\ refStore' = Rebuilt(refStore, Head(pending).raws, Head(pending).at)
    /\ pending' = Tail(pending)
    /\ stale' = IF stale.phase = "removed" /\ Head(pending).at = stale.edits
                THEN [stale EXCEPT !.phase = "stale"]
                ELSE stale
    /\ res' = NoRes
    /\ UNCHANGED <<dom, refOthers>>

RemoveAt(d, k) == SubSeq(d, 1, k - 1) \o SubSeq(d, k + 1, Len(d))

InsertAt(d, k, el) == SubSeq(d, 1, k - 1) \o <<el>> \o SubSeq(d, k, Len(d))

\* The page removes its k-th element.  If the store holds a ref of that very
\* element, the ref is remembered.
DomRemove(k) ==
    /\ k <= Len(dom)
    /\ stale.edits < MaxEdits
    /\ dom' = RemoveAt(dom, k)
    /\ stale' =
          IF /\ refStore.at = stale.edits
             /\ \E ref \in DOMAIN refStore.refMap :
                   refStore.refMap[ref].pos = k
          THEN LET ref == CHOOSE ref \in DOMAIN refStore.refMap :
                             refStore.refMap[ref].pos = k
               IN  [phase |-> "removed", edits |-> stale.edits + 1,
                    ref |-> ref,
                    fingerprint |-> refStore.refMap[ref].fingerprint]
          ELSE [stale EXCEPT !.edits = @ + 1]
    /\ res' = NoRes
    /\ UNCHANGED <<refStore, pending, refOthers>>

\* The page gains an element at place k.
DomInsert(k, el) ==
    /\ k <= Len(dom) + 1
    /\ Len(dom) < MaxDom
    /\ stale.edits < MaxEdits
    /\ dom' = InsertAt(dom, k, el)
    /\ stale' = [stale EXCEPT !.edits = @ + 1]
    /\ res' = NoRes
    /\ UNCHANGED <<refStore, pending, refOthers>>

\* The refs and indexes a caller asks for: every ref a snapshot of a page can
\* produce, one no snapshot produces, and none.
RefInputs ==
    {base \o <<"_">> \o Digits(n) :
        base \in {Chars("button"), Chars("button_0")}, n \in 0..(MaxDom - 1)}
       \cup {Chars("link") \o <<"_">> \o Digits(0), NoRef}

IndexInputs == (0..MaxDom) \cup {NoIndex}

\* One call of resolveLocator.  res keeps the request next to the result.
Resolve(ref, index) ==
    /\ ref = NoRef \/ index = NoIndex
    /\ res' = [request |-> [ref |-> ref, index |-> index],
               result |-> resolveLocator(refStore, dom, ref, index),
               kind |-> "resolved"]
    /\ UNCHANGED <<dom, refStore, pending, stale, refOthers>>

InitRefs ==
    /\ InitBroker /\ tracing = FALSE
    /\ waiter = NoWaiter /\ batch = NoBatch /\ ToolsIdle
    /\ dom \in Pages(MaxInit)
    /\ refStore = EmptyStore
    /\ pending = <<>>
    /\ res = NoRes
    /\ stale = NoStale

NextRefs ==
    \/ GetStateEval
    \/ GetStateStore
    \/ \E k \in 1..MaxDom : DomRemove(k)
    \/ \E k \in 1..MaxDom, el \in Kinds : DomInsert(k, el)
    \/ \E ref \in RefInputs, index \in IndexInputs : Resolve(ref, index)

SpecRefs == InitRefs /\ [][NextRefs]_vars

\* The refs a snapshot gives the raw elements it found.
RefsOf(raws) == {RefOf(raws, k) : k \in 1..Len(raws)}

\* C16: in every state, so after every snapshot and at every lookup, the
\* store holds exactly one entry per interactive element that the snapshot
\* which filled it last found, under that element's ref and under its index,
\* and nothing else; a lookup fails with "Unknown ref" exactly for the refs
\* that are not among them.
C16_StoreRebuiltWholesale ==
    LET raws == refStore.found
    IN  /\ refStore.version = 0 => raws = <<>>
        /\ DOMAIN refStore.refMap = RefsOf(raws)
        /\ Cardinality(DOMAIN refStore.refMap) = Len(raws)
        /\ DOMAIN refStore.indexMap = {k - 1 : k \in 1..Len(raws)}
        /\ \A k \in 1..Len(raws) :
              /\ refStore.refMap[RefOf(raws, k)] = refStore.indexMap[k - 1]
              /\ refStore.indexMap[k - 1].ref = RefOf(raws, k)
              /\ refStore.indexMap[k - 1].index = k - 1
              /\ refStore.indexMap[k - 1].pos = raws[k].pos
              /\ refStore.indexMap[k - 1].selectors.xpath = raws[k].xpath
              /\ refStore.indexMap[k - 1].selectors.cssPath = raws[k].cssPath
              /\ refStore.indexMap[k - 1].fingerprint = raws[k].fingerprintData
        /\ (res.kind = "resolved" /\ res.request.ref # NoRef) =>
              (res.result = Failed("Unknown ref")
                  <=> res.request.ref \notin RefsOf(raws))

\* C16 witness: a second snapshot has filled the store, it found an element,
\* and the ref of the element removed before it, which the first snapshot had
\* stored, is not in the store any more.
C16_EarlierRefGone ==
    /\ refStore.version = 2
    /\ stale.phase = "stale"
    /\ refStore.found # <<>>
    /\ stale.ref \notin DOMAIN refStore.refMap

\* The page has not been edited since the snapshot that filled the store
\* read it.
PageUnchanged == refStore.version > 0 /\ refStore.at = stale.edits

\* The store entry the last request named; the request named one.
Named ==
    /\ res.kind = "resolved"
    /\ IF res.request.ref # NoRef
       THEN res.request.ref \in DOMAIN refStore.refMap
       ELSE res.request.index \in DOMAIN refStore.indexMap

NamedEntry ==
    IF res.request.ref # NoRef THEN refStore.refMap[res.request.ref]
    ELSE refStore.indexMap[res.request.index]

\* C17: on the unchanged page, resolving the ref or the index of an element
\* the snapshot recorded returns that element and no other.
C17_ResolvesToItself ==
    (PageUnchanged /\ Named) =>
        /\ res.result.kind = "element"
        /\ res.result.pos = NamedEntry.pos

\* A snapshot stored a ref, the element it was made for was removed, a later
\* snapshot read the page and filled the store, and the last request asked
\* for that ref.
ActsOnStaleRef ==
    /\ stale.phase = "stale"
    /\ res.kind = "resolved"
    /\ res.request.ref = stale.ref

\* C18: acting on a stale ref ends with an error or returns an element that
\* passed the fingerprint check.
C18_StaleRefChecked ==
    ActsOnStaleRef =>
        \/ res.result.kind = "error"
        \/ res.result.kind = "element" /\ res.result.passed

\* The strategies in the order of the claim, what each one's locator matches
\* on the page for the entry the last request named, and which of those
\* candidates pass the check against the entry's fingerprint.
Strategies == <<"xpath", "css", "fingerprint">>

Candidates(n) ==
    IF n = 1 THEN XPathMatches(dom, NamedEntry.selectors.xpath)
    ELSE IF n = 2 THEN CssMatches(dom, NamedEntry.selectors.cssPath)
    ELSE FingerprintMatches(dom, NamedEntry)

Passing(n) ==
    {q \in Candidates(n) : FingerprintOk(dom[q], NamedEntry.fingerprint)}

\* C19: when the request names an entry, the result is the candidate of the
\* earliest strategy with a passing candidate that comes first in document
\* order among that strategy's passing candidates; no element is reported as
\* having passed when no strategy has a passing candidate.
C19_StrategyOrder ==
    Named =>
        /\ \A n \in 1..3 :
              (Passing(n) # {} /\ \A m \in 1..(n - 1) : Passing(m) = {}) =>
                  /\ res.result.kind = "element"
                  /\ res.result.passed
                  /\ res.result.via = Strategies[n]
                  /\ res.result.pos \in Passing(n)
                  /\ \A q \in Passing(n) : res.result.pos <= q
        /\ (\A n \in 1..3 : Passing(n) = {}) =>
              ~(res.result.kind = "element" /\ res.result.passed)

\* C19 witness: the XPath and the CSS path each found a candidate that failed
\* the check, the fingerprint selector found two that pass, and the first of
\* the two was returned.
C19_ThirdStrategyFirstOfTwo ==
    /\ Named
    /\ Candidates(1) # {} /\ Passing(1) = {}
    /\ Candidates(2) # {} /\ Passing(2) = {}
    /\ Cardinality(Passing(3)) = 2
    /\ res.result.kind = "element"
    /\ res.result.via = "fingerprint"
    /\ \A q \in Passing(3) : res.result.pos <= q

ResolveStep == \E ref \in RefInputs, index \in IndexInputs : Resolve(ref, index)

\* C21: a resolution that names a stored entry fails, with "Unable to resolve
\* element", exactly when none of the entry's three locators matches anything
\* on the page; a ref that is not in the store fails with "Unknown ref" and
\* an index that is not in it with "Unknown index", whatever the page holds;
\* no call of resolveLocator changes the store.
C21_Unresolved ==
    /\ [](Named =>
            (res.result = Failed("Unable to resolve element")
                <=> \A n \in 1..3 : Candidates(n) = {}))
    /\ []((res.kind = "resolved" /\ ~Named) =>
            /\ res.request.ref # NoRef => res.result = Failed("Unknown ref")
            /\ (res.request.ref = NoRef /\ res.request.index # NoIndex)
                  => res.result = Failed("Unknown index"))
    /\ [][ResolveStep => refStore' = refStore]_vars

\* C21 witness: the page has elements, the request named a stored entry, no
\* locator of the entry matched any of them, and the resolution failed.
C21_NothingMatches ==
    /\ Named
    /\ dom # <<>>
    /\ \A n \in 1..3 : Candidates(n) = {}
    /\ res.result = Failed("Unable to resolve element")

\* C22: when a snapshot fills the store after reading the page in the state
\* in which the snapshot before it read it, every element keeps its ref and
\* its index: the two maps are the same after the rebuild as before it.
C22_RebuildRepeats ==
    [][(GetStateStore /\ refStore.version > 0
           /\ Head(pending).at = refStore.at) =>
          /\ refStore'.refMap = refStore.refMap
          /\ refStore'.indexMap = refStore.indexMap
          /\ refStore'.found = refStore.found]_vars

\* C22 witness: two snapshots have read the unedited page, which holds two
\* interactive elements, and the store holds the two entries.
C22_SecondRebuildOfTwo ==
    /\ refStore.version = 2
    /\ stale.edits = 0
    /\ Len(refStore.found) = 2
    /\ Cardinality(DOMAIN refStore.refMap) = 2
    /\ DOMAIN refStore.indexMap = {0, 1}

\* The category of the entry stored under index i, and the entries before it
\* of the same category.
Category(i) == refStore.found[i + 1].refBase

EarlierOfCategory(i) == {j \in 0..(i - 1) : Category(j) = Category(i)}

C24_VersionCounts ==
    /\ refStore.version >= 0
    /\ [][/\ GetStateStore => refStore'.version = refStore.version + 1
          /\ ~GetStateStore => refStore'.version = refStore.version]_vars

\* C24 witness: after two rebuilds, and a resolution since, the version is 2.
C24_VersionTwo ==
    /\ refStore.version = 2
    /\ res.kind = "resolved"


\* A step of a snapshot: its read of the page or its rebuild of the store.
SnapshotStep == GetStateEval \/ GetStateStore

-----------------------------------------------------------------------------
\* sliceList and sliceTree, which cut the element list and the accessibility
\* tree of a state down to the head, tail or limit asked for.

sliceOthers == <<daemonVars, waiter, batch, refVars, ensure, timer, http, net>>

\* An option that is undefined; head, tail and limit given are from 0.
NoCount == 0 - 1

\* What "if (n)" tests: undefined and 0 are both falsy.
Truthy(n) == n # NoCount /\ n # 0

Smaller(a, b) == IF a <= b THEN a ELSE b

Larger(a, b) == IF a >= b THEN a ELSE b

\* items.slice(start, end) and items.slice(start) for start, end >= 0.
JsSlice(items, start, end) == SubSeq(items, start + 1, Smaller(end, Len(items)))

JsSliceFrom(items, start) == SubSeq(items, start + 1, Len(items))

\* The head block and the tail block of sliceList when both are asked for.
tailStartIgnoresHead(total, tail, headItems) == Larger(total - tail, 0)

tailStart(total, tail, headItems) == Larger(total - tail, Len(headItems))

sliceList(items, head, tail, limit) ==
    IF Truthy(head) /\ Truthy(tail)
    THEN LET headItems == JsSlice(items, 0, head)
         IN  headItems \o JsSliceFrom(items, tailStart(Len(items), tail, headItems))
    ELSE IF Truthy(head) THEN JsSlice(items, 0, head)
    ELSE IF Truthy(tail) THEN JsSliceFrom(items, Larger(0, Len(items) - tail))
    ELSE IF Truthy(limit) THEN JsSlice(items, 0, limit)
    ELSE items

\* tree.split("\n") and lines.join("\n") over the characters of the tree.
RECURSIVE SplitLines(_)
SplitLines(chars) ==
    IF HasNewline(chars)
    THEN <<FirstLine(chars)>> \o SplitLines(RestAfterLine(chars))
    ELSE <<chars>>

RECURSIVE JoinLines(_)
JoinLines(lines) ==
    IF lines = <<>> THEN <<>>
    ELSE IF Len(lines) = 1 THEN lines[1]
    ELSE lines[1] \o <<NL>> \o JoinLines(Tail(lines))

sliceTree(tree, head, tail, limit) ==
    IF tree = <<>> THEN tree
    ELSE JoinLines(sliceList(SplitLines(tree), head, tail, limit))

\* The lists and trees sliced: a list holds its own positions, so that an
\* item tells where it came from; a tree is made of two characters and the
\* newline.
ItemLists == {[k \in 1..n |-> k] : n \in 0..MaxItems}

RECURSIVE Trees(_)
Trees(n) ==
    IF n = 0 THEN {<<>>}
    ELSE LET shorter == Trees(n - 1)
         IN  shorter \cup {Append(t, c) : t \in {x \in shorter : Len(x) = n - 1},
                                          c \in {SP, NullLit, NL}}

Counts == (0..MaxCount) \cup {NoCount}

SliceCall(of, input, head, tail, limit) ==
    [pc |-> "call", of |-> of, input |-> input, head |-> head, tail |-> tail,
     limit |-> limit, output |-> <<>>]

\* One call of sliceList (on the elements of a state).
SliceListReturn ==
    /\ slicing.pc = "call" /\ slicing.of = "list"
    /\ slicing' = [slicing EXCEPT
          !.pc = "done",
          !.output = sliceList(slicing.input, slicing.head, slicing.tail,
                               slicing.limit)]
    /\ UNCHANGED sliceOthers

\* One call of sliceTree (on the accessibility tree of a state).
SliceTreeReturn ==
    /\ slicing.pc = "call" /\ slicing.of = "tree"
    /\ slicing' = [slicing EXCEPT
          !.pc = "done",
          !.output = sliceTree(slicing.input, slicing.head, slicing.tail,
                               slicing.limit)]
    /\ UNCHANGED sliceOthers

InitSlice ==
    /\ InitBroker /\ tracing = FALSE
    /\ waiter = NoWaiter /\ batch = NoBatch /\ RefsIdle
    /\ ensure = NoEnsure /\ timer = NoTimer /\ http = NoHttp /\ net = NoNet
    /\ \E head \in Counts, tail \in Counts, limit \in Counts :
          \/ \E items \in ItemLists :
                slicing = SliceCall("list", items, head, tail, limit)
          \/ \E tree \in Trees(MaxTree) :
                slicing = SliceCall("tree", tree, head, tail, limit)

NextSlice == SliceListReturn \/ SliceTreeReturn

SpecSlice == InitSlice /\ [][NextSlice]_vars

\* The items of a sliced list (for a tree: its lines) before and after.
SliceIn ==
    IF slicing.of = "list" THEN slicing.input ELSE SplitLines(slicing.input)

SliceOut ==
    IF slicing.of = "list" THEN slicing.output ELSE SplitLines(slicing.output)

\* The items at the places S of a list, in the order of the list.
RECURSIVE Kept(_, _, _)
Kept(items, S, p) ==
    IF p > Len(items) THEN <<>>
    ELSE (IF p \in S THEN <<items[p]>> ELSE <<>>) \o Kept(items, S, p + 1)

\* C25: with head h > 0 and tail t > 0 the result holds, in their order, the
\* items at the places up to min(h, N) and those after max(N - t, min(h, N)),
\* each once, and is the whole list when h + t >= N; with head only it is the
\* first h items, with tail only the last t, with limit only the first limit;
\* a limit given next to a head or a tail changes nothing.  For a tree the
\* items are its lines.
C25_Slices ==
    slicing.pc = "done" =>
        LET N == Len(SliceIn)
            h == slicing.head
            t == slicing.tail
            l == slicing.limit
            first == Smaller(h, N)
        IN  /\ (h > 0 /\ t > 0) =>
                  /\ SliceOut = Kept(SliceIn,
                                     (1..first) \cup
                                        ((Larger(N - t, first) + 1)..N), 1)
                  /\ Len(SliceOut) <= N
                  /\ h + t >= N => SliceOut = SliceIn
            /\ (h > 0 /\ t <= 0) => SliceOut = Kept(SliceIn, 1..h, 1)
            /\ (h <= 0 /\ t > 0) => SliceOut = Kept(SliceIn, (N - t + 1)..N, 1)
            /\ (h <= 0 /\ t <= 0 /\ l > 0) => SliceOut = Kept(SliceIn, 1..l, 1)
            /\ (h <= 0 /\ t <= 0 /\ l <= 0) => SliceOut = SliceIn
            /\ (h > 0 \/ t > 0) =>
                  slicing.output =
                     IF slicing.of = "list"
                     THEN sliceList(slicing.input, h, t, NoCount)
                     ELSE sliceTree(slicing.input, h, t, NoCount)

\* C25 witness: a list of four items sliced with head 3, tail 2 and a limit
\* of 1 came back whole, the blocks overlapping in the third item.
C25_OverlapOnce ==
    /\ slicing.pc = "done"
    /\ slicing.of = "list"
    /\ Len(slicing.input) = 4
    /\ slicing.head = 3 /\ slicing.tail = 2 /\ slicing.limit = 1
    /\ slicing.output = <<1, 2, 3, 4>>


-----------------------------------------------------------------------------
\* ensureDaemon, run by a caller (the CLI) in its own process: it finds the
\* daemon through its pid and version files and talks to it through
\* DaemonClient.  What the daemon and the file system answer is chosen freely
\* at each step.

ensureOthers == <<daemonVars, waiter, batch, refVars, slicing, timer, http, net>>

\* const maxAttempts = 50 of both polling loops.
maxAttempts == 50

\* options?.createIfMissing ?? true
CreateIfMissing(opt) == IF opt = Absent THEN TRUE ELSE opt = "true"

\* The call as it starts.  running and daemonVersion are what the caller
\* finds on entry: the daemon runs or not, its version file is missing
\* ("none"), holds the caller's VERSION ("same") or another ("other").
EnsureCall(sessionId, opt, runs, daemonVersion) ==
    [pc |-> "enter", sessionId |-> sessionId, given |-> opt,
     createIfMissing |-> CreateIfMissing(opt), running |-> runs,
     daemonVersion |-> daemonVersion, path |-> "none", i |-> 0,
     restarts |-> 0, shutdowns |-> 0, spawns |-> 0, pings |-> 0, polls |-> 0,
     creates |-> 0, error |-> "none"]

EnsureThrow(e, error) == [e EXCEPT !.pc = "thrown", !.error = error]

\* ensureDaemon up to its first await.
EnsureEnter ==
    /\ ensure.pc = "enter"
    /\ ensure' =
          IF ensure.running
          THEN IF ensure.daemonVersion \notin {"none", "same"}
               THEN IF ~ensure.createIfMissing
                    THEN EnsureThrow(ensure, "Daemon was upgraded")
                    ELSE [ensure EXCEPT !.path = "mismatch",
                                        !.restarts = @ + 1,
                                        !.pc = "restart"]
               ELSE [ensure EXCEPT !.pc = "verify"]
          ELSE [ensure EXCEPT !.pc = "spawn"]
    /\ UNCHANGED ensureOthers

\* forceRestartDaemon up to its spawn: if the daemon still runs and answers
\* the ping it is sent shutdown (whose failure is ignored) and given 200 ms.
RestartShutdown(stillRunning, pong) ==
    /\ ensure.pc = "restart"
    /\ ensure' = [ensure EXCEPT
          !.pings = IF stillRunning THEN @ + 1 ELSE @,
          !.shutdowns = IF stillRunning /\ pong THEN @ + 1 ELSE @,
          !.pc = "spawn"]
    /\ UNCHANGED ensureOthers

\* cleanupDaemonFiles() where the path has not done it, and spawnDaemon.
EnsureSpawn ==
    /\ ensure.pc = "spawn"
    /\ ensure' = [ensure EXCEPT
          !.spawns = @ + 1,
          !.path = IF @ = "mismatch" THEN @ ELSE "fresh",
          !.i = 0,
          !.pc = "poll"]
    /\ UNCHANGED ensureOthers

\* Whether a poll that was answered makes the caller create the default
\* session: after a restart whenever the caller's session is "default", after
\* a first start only if it may create sessions as well.
PollCreatesAlways(e) == TRUE

PollCreates(e) ==
    IF e.path = "mismatch" THEN e.sessionId = "default"
    ELSE e.createIfMissing /\ e.sessionId = "default"

\* One round of a polling loop: 100 ms, then client.ping(), which is false
\* when the request fails.
EnsurePoll(pong) ==
    /\ ensure.pc = "poll"
    /\ ensure.i < maxAttempts
    /\ ensure' =
          IF pong
          THEN [ensure EXCEPT !.pings = @ + 1, !.polls = @ + 1,
                              !.pc = IF PollCreates(ensure) THEN "create"
                                     ELSE "returned"]
          ELSE [ensure EXCEPT !.pings = @ + 1, !.polls = @ + 1, !.i = @ + 1]
    /\ UNCHANGED ensureOthers

\* The loop is left without an answer.
EnsureGiveUp ==
    /\ ensure.pc = "poll"
    /\ ensure.i >= maxAttempts
    /\ ensure' = EnsureThrow(ensure,
                    IF ensure.path = "mismatch"
                    THEN "Failed to restart daemon after version mismatch"
                    ELSE "Failed to start daemon")
    /\ UNCHANGED ensureOthers

\* client.create({sessionId: "default"}) answers with success, answers with a
\* failure, or its request fails.
EnsureCreate(outcome) ==
    /\ ensure.pc = "create"
    /\ ensure' =
          IF outcome = "success"
          THEN [ensure EXCEPT !.creates = @ + 1, !.pc = "returned"]
          ELSE EnsureThrow([ensure EXCEPT !.creates = @ + 1],
                           IF outcome = "failure"
                           THEN "Failed to create session"
                           ELSE "request failed")
    /\ UNCHANGED ensureOthers

\* The daemon runs with the caller's version: ping it; if it answers, list
\* the sessions when the default one may have to be created; if it does not,
\* clean up and spawn.
EnsureVerify(pong, listed) ==
    /\ ensure.pc = "verify"
    /\ ensure' =
          IF ~pong
          THEN [ensure EXCEPT !.pings = @ + 1, !.pc = "spawn"]
          ELSE IF ~(ensure.createIfMissing /\ ensure.sessionId = "default")
          THEN [ensure EXCEPT !.pings = @ + 1, !.pc = "returned"]
          ELSE IF listed = "missing"
          THEN [ensure EXCEPT !.pings = @ + 1, !.pc = "create"]
          ELSE IF listed = "throws"
          THEN EnsureThrow([ensure EXCEPT !.pings = @ + 1], "request failed")
          ELSE [ensure EXCEPT !.pings = @ + 1, !.pc = "returned"]
    /\ UNCHANGED ensureOthers

InitEnsure ==
    /\ InitBroker /\ tracing = FALSE
    /\ waiter = NoWaiter /\ batch = NoBatch /\ RefsIdle
    /\ slicing = NoSlice /\ timer = NoTimer /\ http = NoHttp /\ net = NoNet
    /\ ensure \in {EnsureCall(sessionId, opt, runs, daemonVersion) :
                      sessionId \in {"default", "other"},
                      opt \in {Absent, "true", "false"},
                      runs \in BOOLEAN,
                      daemonVersion \in {"none", "same", "other"}}

NextEnsure ==
    \/ EnsureEnter
    \/ \E stillRunning \in BOOLEAN, pong \in BOOLEAN :
          RestartShutdown(stillRunning, pong)
    \/ EnsureSpawn
    \/ \E pong \in BOOLEAN : EnsurePoll(pong)
    \/ EnsureGiveUp
    \/ \E outcome \in {"success", "failure", "throws"} : EnsureCreate(outcome)
    \/ \E pong \in BOOLEAN, listed \in {"exists", "missing", "failure", "throws"} :
          EnsureVerify(pong, listed)

SpecEnsure == InitEnsure /\ [][NextEnsure]_vars

\* Every request of DaemonClient settles: send resolves with the first line,
\* rejects on a socket error and rejects when the socket has been idle for
\* 60 s; the timers of the loops fire.  So a call that can take a step takes it.
SpecEnsureFair == SpecEnsure /\ WF_vars(NextEnsure)

\* The caller found a running daemon with another version.
Mismatch ==
    /\ ensure.pc # "none"
    /\ ensure.running
    /\ ensure.daemonVersion = "other"

EnsureEnded == ensure.pc \in {"returned", "thrown"}

\* What C27 says of the restart, of the polling, of the caller that may not
\* create sessions and of termination.
RestartBounded ==
    /\ [](Mismatch =>
            /\ ensure.restarts <= 1 /\ ensure.spawns <= ensure.restarts
            /\ ensure.shutdowns <= ensure.restarts
            /\ ensure.polls <= maxAttempts
            /\ ensure.creates <= 1
            /\ (ensure.createIfMissing /\ ensure.pc # "enter")
                  => ensure.restarts = 1
            /\ ~ensure.createIfMissing =>
                  /\ ensure.pc \in {"enter", "thrown"}
                  /\ ensure.restarts = 0 /\ ensure.pings = 0
                  /\ ensure.spawns = 0
                  /\ ensure.pc = "thrown" => ensure.error = "Daemon was upgraded"
            /\ ensure.pc \in {"create", "returned"} => ensure.polls = ensure.i + 1
            /\ (ensure.pc = "thrown" /\ ensure.createIfMissing) =>
                  \/ /\ ensure.error =
                          "Failed to restart daemon after version mismatch"
                     /\ ensure.polls = maxAttempts /\ ensure.i = maxAttempts
                     /\ ensure.creates = 0
                  \/ /\ ensure.error \in {"Failed to create session",
                                          "request failed"}
                     /\ ensure.creates = 1)
    /\ (ensure.pc = "enter") ~> EnsureEnded

timerOthers == <<daemonVars, waiter, batch, refVars, slicing, ensure, http, net>>

\* Ticks of the timer that are followed.
MaxFires == 5

\* The session TTLs tried are the multiples of TtlStep up to MaxTtlSteps of
\* them, one millisecond less and one more, and the default.
MaxTtlSteps == 6

TtlStep == 5000

\* The last use falls on a multiple of UseStep or one millisecond later.
MaxUseSteps == 4

UseStep == 5000

\* browser.stop() takes up to MaxStop milliseconds.
MaxStop == 1

\* const DEFAULT_SESSION_TTL_MS = 30 * 60 * 1000
DEFAULT_SESSION_TTL_MS == 30 * 60 * 1000

\* The first argument of Math.max in the delay of setInterval.
MinSweepInterval == 10000

\* Math.max(10_000, Math.floor(sessionTtl / 2)), with the floor dropped
\* from the halving: the delay is the whole TTL.
sweepIntervalWhole(ttl) == Larger(MinSweepInterval, ttl)

\* Math.max(10_000, Math.floor(sessionTtl / 2))
sweepInterval(ttl) == Larger(MinSweepInterval, ttl \div 2)

\* if (now - session.lastUsed > sessionTtl && !session.busy)
timerExpired(t) == t.now - t.lastUsed > t.ttl /\ ~t.busy

\* if (sessionTtl <= 0) return;   (the daemon's callback only)
sweepDisabled(t) == t.impl = "daemon" /\ t.ttl <= 0

\* setInterval(callback, delay) and a session last used at lastUsed, which
\* is busy with one long operation or idle from then on.
TimerCall(impl, ttl, lastUsed, busy) ==
    [pc |-> "armed", impl |-> impl, ttl |-> ttl,
     interval |-> sweepInterval(ttl),
     lastUsed |-> lastUsed, busy |-> busy,
     now |-> lastUsed, fired |-> lastUsed \div sweepInterval(ttl),
     expiredAt |-> 0, removedAt |-> 0]

\* The timer fires and the callback runs up to its first await:
\* const now = Date.now(); the expired, non-busy session has
\* await session.browser.stop() called on it.
TimerFire ==
    /\ timer.pc = "armed"
    /\ timer.fired < MaxFires
    /\ LET at == [timer EXCEPT !.fired = @ + 1,
                               !.now = (timer.fired + 1) * timer.interval]
       IN  timer' = IF ~sweepDisabled(at) /\ timerExpired(at)
                    THEN [at EXCEPT !.pc = "stopping", !.expiredAt = at.now]
                    ELSE at
    /\ UNCHANGED timerOthers

\* browser.stop() settles after d milliseconds:
\* sessions.delete(id); idGenerator.release(id)
StopSettles(d) ==
    /\ timer.pc = "stopping"
    /\ timer' = [timer EXCEPT !.pc = "removed", !.now = @ + d,
                              !.removedAt = timer.now + d]
    /\ UNCHANGED timerOthers

TTLs ==
    {k * TtlStep + e : k \in 0..MaxTtlSteps, e \in {0 - 1, 0, 1}}
        \cup {DEFAULT_SESSION_TTL_MS}

LastUses == {k * UseStep + e : k \in 0..MaxUseSteps, e \in {0, 1}}

InitTimer ==
    /\ InitBroker /\ tracing = FALSE
    /\ waiter = NoWaiter /\ batch = NoBatch /\ RefsIdle
    /\ slicing = NoSlice /\ ensure = NoEnsure /\ http = NoHttp /\ net = NoNet
    /\ timer \in {TimerCall(impl, ttl, lastUsed, busy) :
                     impl \in {"daemon", "server"}, ttl \in TTLs,
                     lastUsed \in LastUses, busy \in BOOLEAN}

NextTimer ==
    \/ TimerFire
    \/ \E d \in 0..MaxStop : StopSettles(d)

SpecTimer == InitTimer /\ [][NextTimer]_vars

\* The delay is the larger of 10000 and floor(TTL / 2), the integer h with
\* 2 * h <= TTL < 2 * h + 2: it is at least both and equal to one of them.
IntervalAsStated ==
    /\ timer.interval >= MinSweepInterval
    /\ timer.ttl < 2 * timer.interval + 2
    /\ \/ timer.interval = MinSweepInterval
       \/ 2 * timer.interval <= timer.ttl

C29_IdsNotShared ==
    /\ (lastResp.req.type = "create" /\ lastResp.req.sessionId = Absent)
          => lastResp.error # "Session already exists"
    /\ \A i \in 1..Len(inflight) :
          (inflight[i].pc = "start" /\ inflight[i].req.sessionId = Absent)
             => /\ inflight[i].sid \in used
                /\ ~Has(sessions, inflight[i].sid)
                /\ \A k \in 1..Len(inflight) :
                      (inflight[k].pc = "start" /\ inflight[k].sid = inflight[i].sid)
                         => k = i
    /\ \A id \in GenIds : Has(sessions, id) => id \in used

\* -------------------------------------------------------------- HTTP server
\* startBrowserServer keeps its own Map of sessions, id generator and sweep
\* timer.  http.objs are the ServerSession objects ever built, http.sessions
\* maps an id to the object registered under it (0: no entry), http.ops are
\* the route handlers suspended inside withSession, http.creating the ids
\* whose browser.start() is awaited, http.sweep the timer callback, http.last
\* the last response, and http.n counts the requests for a session that have
\* arrived.

httpOthers == <<daemonVars, waiter, batch, refVars, slicing, ensure, timer, net>>

\* Requests for a session in one run, route handlers suspended at once,
\* sessions created in one run, and the clock's last reading.
MaxHttpReq == 4
MaxHttpOps == 2
MaxHttpObjs == 2
MaxHttpTime == 2

\* const ttl = config.sessionTtlMs ?? DEFAULT_TTL_MS, in abstract clock units.
httpTtl == 1

HttpIds == {"swift-fox", "calm-owl"}

\* The routes that go through getSessionOrThrow and withSession.
HttpRoutes == {"command", "step", "wait", "state", "close"}

NoHttpResponse == [status |-> "none", error |-> "none", route |-> "none", id |-> "none"]

HttpSweepIdle == [pc |-> "idle", now |-> 0, id |-> "none", obj |-> 0]

\* getSessionOrThrow without the test of session.busy.
getSessionOrThrowNoBusy(sess, os, id) ==
    IF sess[id] = 0 THEN "404" ELSE "ok"

\* getSessionOrThrow: the status it throws, or "ok" when it returns the
\* session: if (!session) throwNotFound(...); if (session.busy) throwBusy()
getSessionOrThrow(sess, os, id) ==
    IF sess[id] = 0 THEN "404"
    ELSE IF os[sess[id]].busy THEN "409"
    ELSE "ok"

\* createErrorResponse(message, status) of throwNotFound and throwBusy.
HttpErrorOf(status) ==
    IF status = "409" THEN "Session is busy" ELSE "Session not found"

\* withSession up to await fn(): session.busy = true;
\* session.lastUsed = Date.now()
withSessionEnter(os, o, t) == [os EXCEPT ![o].busy = TRUE, ![o].lastUsed = t]

\* finally of withSession: session.busy = false; session.lastUsed = Date.now()
withSessionFinally(os, o, t) == [os EXCEPT ![o].busy = FALSE, ![o].lastUsed = t]

\* createNewSession up to await browser.start(): const id = idGenerator.next()
HttpCreate(id) ==
    /\ http.pc = "up"
    /\ Len(http.objs) + Len(http.creating) < MaxHttpObjs
    /\ id \notin http.used
    /\ http' = [http EXCEPT !.used = @ \cup {id},
                            !.creating = Append(@, id),
                            !.last = NoHttpResponse]
    /\ UNCHANGED httpOthers

\* browser.start() settles: sessions.set(id, {id, browser, lastUsed, busy});
\* when it throws the route answers 500 and the id stays marked used.
HttpCreated(i, ok) ==
    /\ http.pc = "up"
    /\ i <= Len(http.creating)
    /\ LET id == http.creating[i]
           o == Len(http.objs) + 1
       IN  http' =
              IF ok
              THEN [http EXCEPT
                      !.creating = Without(@, i),
                      !.objs = Append(@, [id |-> id, busy |-> FALSE,
                                          lastUsed |-> http.now]),
                      !.sessions[id] = o,
                      !.last = [status |-> "201", error |-> "none",
                                route |-> "create", id |-> id]]
              ELSE [http EXCEPT
                      !.creating = Without(@, i),
                      !.last = [status |-> "500", error |-> "engine",
                                route |-> "create", id |-> id]]
    /\ UNCHANGED httpOthers

\* A request of one of the five routes arrives and its handler runs up to
\* its first await: getSessionOrThrow, then withSession up to await fn().
\* closes says that the operation, when it succeeds, removes the session:
\* the close route and a command of type "close".
HttpRequest(route, closes, id) ==
    /\ http.pc = "up"
    /\ http.n < MaxHttpReq
    /\ Len(http.ops) < MaxHttpOps
    /\ closes => route \in {"command", "close"}
    /\ route = "close" => closes
    /\ LET status == getSessionOrThrow(http.sessions, http.objs, id)
           o == http.sessions[id]
       IN  http' =
              IF status = "ok"
              THEN [http EXCEPT
                      !.n = @ + 1,
                      !.objs = withSessionEnter(@, o, http.now),
                      !.ops = Append(@, [route |-> route, closes |-> closes,
                                         id |-> id, obj |-> o]),
                      !.last = NoHttpResponse]
              ELSE [http EXCEPT
                      !.n = @ + 1,
                      !.last = [status |-> status, error |-> HttpErrorOf(status),
                                route |-> route, id |-> id]]
    /\ UNCHANGED httpOthers

\* fn() of the handler at place i settles.  When it resolved and the
\* operation closes the session: sessions.delete(sessionId);
\* idGenerator.release(sessionId).  Then the finally block of withSession
\* runs and the response is written (500 when fn threw).
HttpSettle(i, ok) ==
    /\ http.pc = "up"
    /\ i <= Len(http.ops)
    /\ LET op == http.ops[i] IN
       http' = [http EXCEPT
                  !.ops = Without(@, i),
                  !.sessions[op.id] = IF ok /\ op.closes THEN 0 ELSE @,
                  !.used = IF ok /\ op.closes THEN @ \ {op.id} ELSE @,
                  !.objs = withSessionFinally(@, op.obj, http.now),
                  !.last = [status |-> IF ~ok THEN "500"
                                       ELSE IF op.route = "close" THEN "204"
                                       ELSE "200",
                            error |-> IF ok THEN "none" ELSE "engine",
                            route |-> op.route, id |-> op.id]]
    /\ UNCHANGED httpOthers

\* Date.now() advances.
HttpTick ==
    /\ http.pc = "up"
    /\ http.now < MaxHttpTime
    /\ http' = [http EXCEPT !.now = @ + 1, !.last = NoHttpResponse]
    /\ UNCHANGED httpOthers

\* if (now - session.lastUsed > ttl && !session.busy)
HttpExpired(s, t) == t - s.lastUsed > httpTtl /\ ~s.busy

\* The timer callback from the entry after object `last` on (a Map iterates
\* in insertion order, which is the order of the objects): it suspends at
\* await session.browser.stop() of the first expired session.
HttpSweepFrom(h, t, last) ==
    LET S == {o \in (last + 1)..Len(h.objs) :
                 /\ h.sessions[h.objs[o].id] = o
                 /\ HttpExpired(h.objs[o], t)}
    IN  IF S = {}
        THEN HttpSweepIdle
        ELSE LET o == CHOOSE x \in S : \A y \in S : x <= y
             IN  [pc |-> "await", now |-> t, id |-> h.objs[o].id, obj |-> o]

\* The timer fires: const now = Date.now(); for (const [id, session] of sessions)
HttpSweepTick ==
    /\ http.pc = "up"
    /\ http.sweep.pc = "idle"
    /\ HttpSweepFrom(http, http.now, 0).pc = "await"
    /\ http' = [http EXCEPT !.sweep = HttpSweepFrom(http, http.now, 0),
                            !.last = NoHttpResponse]
    /\ UNCHANGED httpOthers

\* The stop awaited by the callback settles: sessions.delete(id);
\* idGenerator.release(id); and the loop goes on.  When the stop throws the
\* callback ends there: it has no try around the await.
HttpSweepResume(ok) ==
    /\ http.pc = "up"
    /\ http.sweep.pc = "await"
    /\ LET h == [http EXCEPT !.sessions[http.sweep.id] = 0,
                             !.used = @ \ {http.sweep.id}]
       IN  http' =
              IF ok
              THEN [h EXCEPT !.sweep = HttpSweepFrom(h, http.sweep.now,
                                                     http.sweep.obj),
                             !.last = NoHttpResponse]
              ELSE [http EXCEPT !.sweep = HttpSweepIdle,
                                !.last = NoHttpResponse]
    /\ UNCHANGED httpOthers

InitHttp ==
    /\ InitBroker /\ tracing = FALSE
    /\ waiter = NoWaiter /\ batch = NoBatch /\ RefsIdle
    /\ slicing = NoSlice /\ ensure = NoEnsure /\ timer = NoTimer
    /\ net = NoNet
    /\ http = [pc |-> "up", now |-> 0, n |-> 0,
               sessions |-> [id \in HttpIds |-> 0], objs |-> <<>>,
               used |-> {}, creating |-> <<>>, ops |-> <<>>,
               sweep |-> HttpSweepIdle, last |-> NoHttpResponse]

NextHttp ==
    \/ \E id \in HttpIds : HttpCreate(id)
    \/ \E i \in 1..MaxHttpObjs : \E ok \in BOOLEAN : HttpCreated(i, ok)
    \/ \E route \in HttpRoutes : \E closes \in BOOLEAN : \E id \in HttpIds :
          HttpRequest(route, closes, id)
    \/ \E i \in 1..MaxHttpOps : \E ok \in BOOLEAN : HttpSettle(i, ok)
    \/ HttpTick
    \/ HttpSweepTick
    \/ \E ok \in BOOLEAN : HttpSweepResume(ok)

SpecHttp == InitHttp /\ [][NextHttp]_vars

\* The step is the arrival of a request of one of the five routes.
HttpArrives == http.pc = "up" /\ http'.n = http.n + 1

\* C30: a request of one of the five routes for a session whose busy flag is
\* set is answered 409 "Session is busy", no handler is started and no
\* session's busy flag or lastUsed changes; a request that is admitted has
\* set the flag when its handler first suspends; so every suspended handler
\* holds its session's flag and no two of them run against one session.
C30_BusyRejected ==
    /\ [][\A id \in HttpIds :
             (/\ HttpArrives
              /\ http'.last.id = id \/ (Len(http'.ops) > Len(http.ops)
                                         /\ http'.ops[Len(http'.ops)].id = id)
              /\ http.sessions[id] # 0
              /\ http.objs[http.sessions[id]].busy)
             => /\ http'.last.status = "409"
                /\ http'.last.error = "Session is busy"
                /\ http'.ops = http.ops
                /\ http'.objs = http.objs
                /\ http'.sessions = http.sessions]_vars
    /\ [][(HttpArrives /\ Len(http'.ops) > Len(http.ops))
             => http'.objs[http'.ops[Len(http'.ops)].obj].busy]_vars
    /\ [](http.pc = "up" =>
             \A i, k \in 1..Len(http.ops) :
                /\ http.objs[http.ops[i].obj].busy
                /\ http.ops[i].obj = http.ops[k].obj => i = k)

\* Witness for C30: a request for a session that is executing an operation
\* has just been answered 409 while that operation is still in flight.
C30_RejectedWhileBusy ==
    /\ http.pc = "up"
    /\ http.last.status = "409"
    /\ http.last.route = "state"
    /\ \E i \in 1..Len(http.ops) :
          /\ http.ops[i].id = http.last.id
          /\ http.ops[i].route = "wait"
          /\ http.sessions[http.last.id] = http.ops[i].obj
          /\ http.objs[http.ops[i].obj].busy

\* ---------------------------------------------------------- unknown session

\* The line at the head of c's buffer is a command, act, wait, state or close
\* request, well formed but for the session id it may omit.
SessionRequest(c) ==
    /\ HasLine(c)
    /\ HeadRequest(c) # SyntaxError
    /\ HeadRequest(c).type \in SessionOps \cup {"close"}
    /\ HeadRequest(c).id \in Tokens
    /\ HeadRequest(c).type = "command" => HeadRequest(c).cmd \in CmdTypes

\* The session such a request is for: the one it names, "default" when it
\* names none.
Named31(c) ==
    IF HeadRequest(c).sessionId = Absent THEN "default"
    ELSE HeadRequest(c).sessionId

\* The step answers c's request with the given error and changes nothing
\* else: no session is created, no flag or lastUsed set, nothing goes in
\* flight.
Refused(c, error) ==
    /\ lastResp'.conn = c
    /\ ~lastResp'.success
    /\ lastResp'.error = error
    /\ lastResp'.id = HeadRequest(c).id
    /\ UNCHANGED <<sessions, objs, used, inflight, sweep>>

\* The step takes c's request to the session registered under id: the
\* operation goes in flight against its object, or it is answered against
\* it at once.
RoutedTo(c, id) ==
    \/ /\ Len(inflight') = Len(inflight) + 1
       /\ inflight'[Len(inflight')].conn = c
       /\ inflight'[Len(inflight')].sid = id
       /\ inflight'[Len(inflight')].obj = sessions[id].obj
    \/ lastResp'.conn = c /\ lastResp'.obj = sessions[id].obj

\* C31 as stated: a command, act, wait, state or close request whose session
\* (the one it names, "default" when it names none) is not registered is
\* answered "Session not found" and changes nothing; one that names no
\* session and finds "default" registered is taken to that session.
C31_NotFound ==
    [][\A c \in Conns :
          SessionRequest(c) =>
             /\ ~Has(sessions, Named31(c)) => Refused(c, "Session not found")
             /\ (HeadRequest(c).sessionId = Absent /\ Has(sessions, "default"))
                   => RoutedTo(c, "default")]_vars

\* C31, amended: the same for command, act, wait and state requests and for
\* close requests that name a session; a close request that names none fails
\* the request schema and is answered "Invalid request", changing nothing,
\* whether or not "default" is registered.
C31_NotFoundCloseNamed ==
    [][\A c \in Conns :
          SessionRequest(c) =>
             IF HeadRequest(c).type = "close" /\ HeadRequest(c).sessionId = Absent
             THEN Refused(c, "Invalid request")
             ELSE /\ ~Has(sessions, Named31(c)) => Refused(c, "Session not found")
                  /\ (HeadRequest(c).sessionId = Absent /\ Has(sessions, "default"))
                        => RoutedTo(c, "default")]_vars

\* Witness for C31: a state request that names no session has just been
\* answered "Session not found" while another session is registered and
\* "default" is not.
C31_NoDefault ==
    /\ lastResp.req.type = "state"
    /\ lastResp.req.sessionId = Absent
    /\ lastResp.error = "Session not found"
    /\ ~Has(sessions, "default")
    /\ Has(sessions, "swift-fox")

\* ------------------------------------------------------- concurrent creates

\* The step writes the success response of a create request.
CreateSucceeds ==
    lastResp' # NoResp /\ lastResp'.req.type = "create" /\ lastResp'.success

\* C32: creates of one id are serialized: a create request succeeds only
\* when no session is registered under its id at that moment (of two creates
\* in flight for one id the second to finish fails with "Session already
\* exists"), and the session it registers displaces no registered session,
\* whose started browser would be left without a registry entry.
C32_CreatesSerialized ==
    [][CreateSucceeds =>
          /\ ~Has(sessions, objs'[lastResp'.obj].id)
          /\ \A o \in 1..Len(objs) :
                (Live(o) /\ objs[o].page) => sessions'[objs[o].id].obj = o]_vars

\* ------------------------------------------------------- flag held throughout

\* C33: while a command, act, wait or state operation is in flight (from its
\* dispatch to the end of its last engine call, the trailing snapshot
\* included) its session's busy flag is true; and when its response is
\* written the flag of a session that is still registered has been released.
C33_BusyThroughout ==
    /\ [](\A i \in 1..Len(inflight) :
             inflight[i].req.type \in SessionOps => objs[inflight[i].obj].busy)
    /\ [][(/\ lastResp' # NoResp
           /\ lastResp'.req.type \in SessionOps
           /\ lastResp'.obj # 0
           /\ sessions'[objs'[lastResp'.obj].id].obj = lastResp'.obj)
          => ~objs'[lastResp'.obj].busy]_vars

\* ------------------------------------------------------------------ lastUsed

\* The step dispatches a session operation: one more request is in flight,
\* and it is a command, act, wait or state.
OpStarts ==
    /\ Len(inflight') = Len(inflight) + 1
    /\ inflight'[Len(inflight')].req.type \in SessionOps

\* The step writes the response of a session operation that ran against
\* the session object it names.
OpEnds ==
    /\ lastResp' # NoResp
    /\ lastResp'.req.type \in SessionOps
    /\ lastResp'.obj # 0

stateOthers == <<dom, stale, daemonVars, waiter, batch, toolVars>>

\* includeElements and elementsHead, elementsTail, elementsLimit of
\* GetStateOptions.
StateOptions ==
    [includeElements : BOOLEAN, elementsHead : Counts, elementsTail : Counts,
     elementsLimit : Counts]

\* What extractInteractiveElements returns: rawElements.map((raw, index) =>
\* ({index, ref, ...})); pos is the element of the page it describes.
elementsSnapshot(raws) ==
    [k \in 1..Len(raws) |->
        [index |-> k - 1, ref |-> RefOf(raws, k), pos |-> raws[k].pos]]

\* Variant of snapshotRaws: the store is built from the elements only when
\* they are returned.
snapshotRawsIfIncluded(options, raws) ==
    IF options.includeElements THEN raws ELSE <<>>

\* The raw elements the store is rebuilt from: extractInteractiveElements is
\* an unconditional member of the Promise.all ("always rebuild refs even if
\* elements aren't returned"), unlike buildAccessibilityTree.
snapshotRaws(options, raws) == raws

\* getState up to the await of Promise.all: page.evaluate reads the page.
GetStateBegin(options) ==
    /\ Len(pending) < MaxPending
    /\ refStore.version + Len(pending) < MaxSnapshots
    /\ pending' = Append(pending,
                         [raws |-> extractInteractiveElementsRaw(dom),
                          at |-> stale.edits, options |-> options])
    /\ res' = NoRes
    /\ UNCHANGED <<refStore, stateOthers>>

\* getState from the rebuild of the store to its return:
\* const elements = includeElements ? elementsSnapshot : [];
\* elements: sliceList(elements, {head, tail, limit})
GetStateReturn ==
    /\ pending # <<>>
    /\ LET snap == Head(pending)
           raws == snapshotRaws(snap.options, snap.raws)
           elements == IF snap.options.includeElements
                       THEN elementsSnapshot(raws) ELSE <<>>
       IN  /\ refStore' = Rebuilt(refStore, raws, snap.at)
           /\ res' = [kind |-> "state", request |-> snap.options,
                      result |-> sliceList(elements, snap.options.elementsHead,
                                           snap.options.elementsTail,
                                           snap.options.elementsLimit)]
    /\ pending' = Tail(pending)
    /\ UNCHANGED stateOthers

InitState ==
    /\ InitBroker /\ tracing = FALSE
    /\ waiter = NoWaiter /\ batch = NoBatch /\ ToolsIdle
    /\ dom \in Pages(MaxInit)
    /\ refStore = EmptyStore
    /\ pending = <<>>
    /\ res = NoRes
    /\ stale = NoStale

NextState ==
    \/ \E options \in StateOptions : GetStateBegin(options)
    \/ GetStateReturn

SpecState == InitState /\ [][NextState]_vars

\* The places of the page's interactive elements, and the elements a
\* getState without options returns for the page.
Interactive35 == {q \in 1..Len(dom) : IsInteractive(dom[q])}

Unsliced35 == elementsSnapshot(extractInteractiveElementsRaw(dom))

\* C35: after a getState with any options the store holds one ref and one
\* index per interactive element of the page, each of them resolves to an
\* element, and every element the state returns carries the ref and index
\* it has in the state returned without options, under which the store
\* holds that very element; with includeElements = false nothing is returned.
C35_StoreIgnoresOptions ==
    res.kind = "state" =>
        /\ Cardinality(DOMAIN refStore.refMap) = Cardinality(Interactive35)
        /\ DOMAIN refStore.indexMap = 0..(Cardinality(Interactive35) - 1)
        /\ \A q \in Interactive35 :
              /\ \E ref \in DOMAIN refStore.refMap : refStore.refMap[ref].pos = q
              /\ \E index \in DOMAIN refStore.indexMap :
                    refStore.indexMap[index].pos = q
        /\ \A ref \in DOMAIN refStore.refMap :
              resolveLocator(refStore, dom, ref, NoIndex).kind = "element"
        /\ \A index \in DOMAIN refStore.indexMap :
              resolveLocator(refStore, dom, NoRef, index).kind = "element"
        /\ \A i \in 1..Len(res.result) :
              LET e == res.result[i] IN
              /\ e.index + 1 \in 1..Len(Unsliced35)
              /\ e = Unsliced35[e.index + 1]
              /\ refStore.refMap[e.ref].pos = e.pos
              /\ refStore.indexMap[e.index].pos = e.pos
        /\ ~res.request.includeElements => res.result = <<>>

\* Witness for C35: a getState with elementsTail = 1 on a page of two
\* interactive elements returned the second one alone, with index 1, and the
\* store holds both.
C35_TailOfTwo ==
    /\ res.kind = "state"
    /\ res.request.includeElements
    /\ res.request.elementsTail = 1
    /\ res.request.elementsHead = NoCount
    /\ Len(res.result) = 1
    /\ res.result[1].index = 1
    /\ Cardinality(DOMAIN refStore.refMap) = 2

--------------------------------------------------------------------------
\* Shutdown and the browsers of the registry (daemon.ts 954-968, 1023-1028).

\* The session objects whose browser was started and has not been stopped.
Unstopped == {o \in 1..Len(objs) : objs[o].page}

\* A second trigger: a shutdown request line dispatched while shuttingDown
\* is set returns at `if (shuttingDown) return` and changes nothing of the
\* daemon's own state.
SecondTriggerIdle ==
    [][\A c \in Conns :
          (shuttingDown /\ Dispatchable(c, {"shutdown"}))
             => UNCHANGED <<sessions, objs, shut, alive, timerActive,
                            listening, shuttingDown>>]_vars

\* C36: when shutdown has run to completion the registry is empty and no
\* browser that was started is left unstopped, whatever the outcome of the
\* stops and whatever create or operation was in flight meanwhile.
C36_ShutdownStopsAll ==
    ~alive => /\ \A id \in Ids : sessions[id] = NoEntry
              /\ Unstopped = {}


--------------------------------------------------------------------------
\* The network log of one browser (actions.ts 182-267, browser.ts 31-52,
\* 482-521).  networkLogLimit is a z.number() (daemon.ts 668): it may be
\* negative or fractional, so a limit is kept as a count of halves.

netOthers == <<daemonVars, waiter, batch, refVars, slicing, ensure, timer, http>>

MaxNetEvents == 5

MaxNetReqs == 2

MaxLimitHalves == 6

MaxNegHalves == 3

DefaultNetworkLogLimit == 500

\* The Request objects the page emits events for.
NetReqs == 1..MaxNetReqs

NetTypes == {"request", "response", "failed"}

\* options.networkLogLimit: absent, or a number given in halves.
LimitOptions ==
    {[given |-> FALSE, halves |-> 0]}
       \cup {[given |-> TRUE, halves |-> h] : h \in (0 - MaxNegHalves)..MaxLimitHalves}

\* this.networkLogLimit =
\*     options.networkLogLimit ?? this.config.networkLogLimit ?? 500
networkLogLimit(option) ==
    IF option.given THEN option.halves ELSE 2 * DefaultNetworkLogLimit

\* Array.prototype.splice(0, deleteCount): deleteCount goes through
\* ToIntegerOrInfinity (truncation) and is clamped to 0..length.
spliceFront(events, halves) ==
    LET dc == IF halves <= 0 THEN 0 ELSE halves \div 2
        n  == IF dc > Len(events) THEN Len(events) ELSE dc
    IN  SubSeq(events, n + 1, Len(events))

\* Variant of pushNetworkEvent: the oldest events are kept.
pushNetworkEventKeepOldest(events, event, limit) ==
    LET pushed == Append(events, event) IN
    IF 2 * Len(pushed) > limit
    THEN SubSeq(pushed, 1, Len(spliceFront(pushed, 2 * Len(pushed) - limit)))
    ELSE pushed

\* events.push(event);
\* if (events.length > limit) events.splice(0, events.length - limit)
pushNetworkEvent(events, event, limit) ==
    LET pushed == Append(events, event) IN
    IF 2 * Len(pushed) > limit
    THEN spliceFront(pushed, 2 * Len(pushed) - limit)
    ELSE pushed

\* Variant of clearNetworkLogs: a fresh array replaces the log.
clearFresh(n) == [n EXCEPT !.mine = 1 - n.mine, !.arrays[1 - n.mine] = <<>>]

\* clearNetworkLogs: this.networkLogs.length = 0 (the array the listeners
\* hold is the one emptied).
clearNetworkLogs(n) == [n EXCEPT !.arrays[n.mine] = <<>>]

\* getNetworkLogs: [...this.networkLogs]
getNetworkLogs(n) == n.arrays[n.mine]

\* The id of an event for request r: the cached one, or `req-${counter++}`.
NetIdOf(n, type, r) ==
    IF type # "request" /\ n.requestMap[r] >= 0 THEN n.requestMap[r]
    ELSE n.counter

\* One page.on(...) listener of setupNetworkCapture runs for request r.
Captured(n, type, r) ==
    LET id == NetIdOf(n, type, r)
        event == [id |-> id, type |-> type, req |-> r]
    IN  [n EXCEPT
           !.counter = IF id = n.counter THEN n.counter + 1 ELSE n.counter,
           !.requestMap[r] = IF type = "request" THEN id ELSE 0 - 1,
           !.arrays[n.sink] = pushNetworkEvent(n.arrays[n.sink], event, n.limit),
           !.arrived = Append(n.arrived, event)]

\* The page emits a request, response or requestfailed event; it is captured
\* when the listeners are registered.
NetEvent(type, r) ==
    /\ net.pc = "up"
    /\ net.n < MaxNetEvents
    /\ net' = [(IF net.enabled THEN Captured(net, type, r) ELSE net)
                 EXCEPT !.n = net.n + 1, !.op = type]
    /\ UNCHANGED netOthers

\* enableNetworkCapture: returns when already enabled; otherwise registers
\* the listeners on this.networkLogs with a counter of 0 and an empty map.
NetEnable ==
    /\ net.pc = "up"
    /\ net.op # "enable"
    /\ net' = IF net.enabled THEN [net EXCEPT !.op = "enable"]
              ELSE [net EXCEPT !.enabled = TRUE, !.sink = net.mine,
                               !.counter = 0,
                               !.requestMap = [r \in NetReqs |-> 0 - 1],
                               !.op = "enable"]
    /\ UNCHANGED netOthers

\* The clearNetworkLogs command.
NetClear ==
    /\ net.pc = "up"
    /\ net.op # "clear"
    /\ net' = [clearNetworkLogs(net) EXCEPT !.arrived = <<>>, !.op = "clear"]
    /\ UNCHANGED netOthers

\* A started browser: start() calls enableNetworkCapture when
\* config.captureNetwork (default true) is set.
InitNet ==
    /\ InitBroker /\ tracing = FALSE
    /\ waiter = NoWaiter /\ batch = NoBatch /\ RefsIdle
    /\ slicing = NoSlice /\ ensure = NoEnsure /\ timer = NoTimer
    /\ http = NoHttp
    /\ \E option \in LimitOptions, captureNetwork \in BOOLEAN :
          net = [pc |-> "up", limit |-> networkLogLimit(option),
                 enabled |-> captureNetwork, mine |-> 0, sink |-> 0,
                 arrays |-> [a \in 0..1 |-> <<>>], counter |-> 0,
                 requestMap |-> [r \in NetReqs |-> 0 - 1],
                 arrived |-> <<>>, n |-> 0, op |-> "start"]

NextNet ==
    \/ \E type \in NetTypes, r \in NetReqs : NetEvent(type, r)
    \/ NetEnable
    \/ NetClear

SpecNet == InitNet /\ [][NextNet]_vars

\* The last k elements of s (all of s when it is shorter).
LastOf(s, k) == IF k >= Len(s) THEN s ELSE SubSeq(s, Len(s) - k + 1, Len(s))

\* The log holds the most recent events captured since the last clear, in
\* arrival order, at most k of them.
MostRecent(k) == getNetworkLogs(net) = LastOf(net.arrived, k)

Capacity(limit) == IF limit < 0 THEN 0 ELSE (limit + 1) \div 2

--------------------------------------------------------------------------
\* The stored fingerprint against the element it was taken from
\* (state.ts 260-275, 355-361; ref-store.ts 116-165).

\* The entries of the store, by ref and by index.
StoredEntries ==
    {refStore.refMap[ref] : ref \in DOMAIN refStore.refMap}
       \cup {refStore.indexMap[index] : index \in DOMAIN refStore.indexMap}

\* C38: on the unchanged page every recorded element passes the check of
\* pickMatching against the fingerprint the snapshot stored for it, and a
\* ref or index of the store resolves at a fingerprint-checked step, not
\* through the last resort.
C38_OwnFingerprintPasses ==
    PageUnchanged =>
        /\ \A e \in StoredEntries :
              /\ e.pos \in 1..Len(dom)
              /\ FingerprintOk(dom[e.pos], e.fingerprint)
        /\ Named => (res.result.kind = "element" /\ res.result.passed)


--------------------------------------------------------------------------
\* Who removes a registry entry (daemon.ts 924-952, 971-986).

\* The step removes the entry of id, and not by shutdown's sessions.clear().
Removes(id) == Has(sessions, id) /\ ~Has(sessions', id) /\ alive'

\* A close request, a close command or the sweep is awaiting the stop of
\* object o's browser, or o's browser holds no page (its stop settles at
\* once).
BeingStopped(o) ==
    \/ ~objs[o].page
    \/ sweep.pc = "await" /\ sweep.obj = o
    \/ \E i \in 1..Len(inflight) :
          \/ inflight[i].pc = "stop" /\ inflight[i].target = o
          \/ /\ inflight[i].pc = "exec" /\ inflight[i].obj = o
             /\ inflight[i].req.type = "command"
             /\ inflight[i].req.cmd = "close"

\* C39, first part: a registry entry is removed only by a close or sweep
\* that was stopping the browser of the session registered under it.
C39_RemovedByItsStopper ==
    [][\A id \in Ids :
          Removes(id) => BeingStopped(sessions[id].obj)]_vars

\* C39, second part: while the daemon runs, no started, unstopped browser is
\* without a registry entry.
C39_NoOrphan == alive => \A o \in Unstopped : Live(o)

\* C39: a registry entry is removed only by the close or sweep that stopped
\* that session's browser, and at no time does a started, unstopped browser
\* exist without a registry entry.
C39_EntryFollowsBrowser == C39_RemovedByItsStopper /\ []C39_NoOrphan


--------------------------------------------------------------------------
\* The order of the responses on one connection (daemon.ts 988-1040).
\* inflight holds the suspended requests in the order of their dispatch,
\* which on one connection is the order in which their lines were received.

\* C40: on a single connection the responses are written in the order in
\* which the request lines were received: a response is written on c only
\* when no request of c received before the answered one is still awaiting
\* its operation.
C40_ConnectionOrder ==
    [][\A c \in Conns :
          (lastResp' # NoResp /\ lastResp'.conn = c)
             => IF \E i \in 1..Len(inflight) : Answers(i)
                THEN \E i \in 1..Len(inflight) :
                        /\ Answers(i)
                        /\ \A k \in 1..(i - 1) : inflight[k].conn # c
                ELSE \A k \in 1..Len(inflight) : inflight[k].conn # c]_vars


=============================================================================
